---- MODULE Spec2Model ----
(***************************************************************************)
(* Notification decoding, dispatch, stream framing and request/response    *)
(* routing of the NPL AI starter (python/client, python/slack_connector,   *)
(* python/teams_connector, python/agent_worker).                           *)
(*                                                                         *)
(* Python values are modelled as tagged records:                           *)
(*   None   [t |-> "null"]            str    [t |-> "str",   s |-> "..."]  *)
(*   bool   [t |-> "bool", b |-> ..]  number [t |-> "num",   n |-> "3.5"]  *)
(*   list   [t |-> "arr",  a |-> <<..>>]                                   *)
(*   dict   [t |-> "obj",  o |-> [key |-> value, ...]]                     *)
(*   float  [t |-> "float", r |-> "3.5"]    (result of float(...))         *)
(* A call that may raise returns [exc |-> "", v |-> value] or              *)
(* [exc |-> "<exception class>", v |-> None].                              *)
(***************************************************************************)
EXTENDS Integers, Sequences, FiniteSets, TLC

VARIABLES
    results,        \* SpecDispatch: outcome of every process_notification call made
    sse_pc,         \* consume_sse: "start", "reading", "returned" or "raised"
    sse_exc,        \* consume_sse: the exception it raised and the call that raised it
    current_event,  \* consume_sse: the ServerSentEvent being accumulated
    lines_read,     \* consume_sse: the lines iter_lines() has yielded so far
    dispatched,     \* consume_sse: every callback(...) call, in order: its argument, the
                    \* event type it was made for and the number of the blank line
    handled,        \* the notifications passed to handle_notification, in order
    app,            \* SpecAdapter: which adapter runs, "slack" or "teams"
    destination,    \* SlackNotificationHandler.channel / TeamsNotificationHandler.conversation_reference
    messages,       \* the inbound chat messages: channel and position of the handler
    requests,       \* backend: the k-th request created -> the message that created it
    recorded,       \* messages whose destination has been stored in the handler
    stream,         \* the adapter's stream consumer: how many payloads it has processed
                    \* and what processing the last one did
    posts,          \* messages sent to chat channels, in order
    http,           \* consume_sse: its calls to the token provider and the backend, in order
    main_pc,        \* the application's main thread: "running", "cleanup", "cleaned" or "exited"
    shutdown_event  \* SlackApp.shutdown_event / TeamsApp.shutdown_event is set

vars == <<results, sse_pc, sse_exc, current_event, lines_read, dispatched, handled,
          app, destination, messages, requests, recorded, stream, posts,
          http, main_pc, shutdown_event>>

----------------------------------------------------------------------------
(* Python values *)

None == [t |-> "null"]
JStr(s) == [t |-> "str", s |-> s]
JNum(n) == [t |-> "num", n |-> n]
JBool(b) == [t |-> "bool", b |-> b]
JArr(a) == [t |-> "arr", a |-> a]
JObj(o) == [t |-> "obj", o |-> o]
PyFloat(r) == [t |-> "float", r |-> r]
EmptyObj == JObj([k \in {} |-> None])

Ok(v) == [exc |-> "", v |-> v]
Raise(e) == [exc |-> e, v |-> None]

\* isinstance(x, dict)
IsDict(x) == x.t = "obj"

\* key in d
HasKey(d, k) == k \in DOMAIN d.o

\* d.get(k, default)
GetOr(d, k, default) == IF HasKey(d, k) THEN d.o[k] ELSE default

\* d.get(k)
Get(d, k) == GetOr(d, k, None)

\* bool(x) for the values json.loads produces and for dataclass instances
Truthy(x) ==
    CASE x.t = "null" -> FALSE
      [] x.t = "bool" -> x.b
      [] x.t = "str" -> x.s # ""
      [] x.t = "num" -> x.n \notin {"0", "0.0"}
      [] x.t = "float" -> x.r \notin {"0.0"}
      [] x.t = "arr" -> x.a # <<>>
      [] x.t = "obj" -> DOMAIN x.o # {}
      [] OTHER -> TRUE

----------------------------------------------------------------------------
(* client/models/notification_models.py *)

\* float(s) for the numeric literals the model uses: literal -> repr of the float.
\* Any other string is not a float literal (float raises ValueError on it).
FloatRepr ==
    [s \in {"0", "5", "3.5", " 7 ", "nan", "9007199254740993"} |->
        CASE s = "0" -> "0.0"
          [] s = "5" -> "5.0"
          [] s = "3.5" -> "3.5"
          [] s = " 7 " -> "7.0"
          [] s = "nan" -> "nan"
          \* 2^53 + 1 is no double: float() rounds it to 2^53
          [] s = "9007199254740993" -> "9007199254740992.0"]

\* float(str(value)) if value is not None else None, with TypeError and
\* ValueError turned into ValueError("Invalid number format")
number_value(value) ==
    CASE value.t = "null" -> Ok(None)
      [] value.t = "num" -> Ok(PyFloat(FloatRepr[value.n]))
      [] value.t = "str" ->
            IF value.s \in DOMAIN FloatRepr
            THEN Ok(PyFloat(FloatRepr[value.s]))
            ELSE Raise("ValueError")
      [] OTHER -> Raise("ValueError")

\* datetime.fromisoformat(value.replace('Z', '+00:00')) succeeds
fromisoformat_ok(s) ==
    s \in {"2024-01-02T03:04:05Z", "2024-01-02T03:04:05+00:00", "2024-01-02"}

RECURSIVE ApiValue_from_dict(_)
\* every input is kept as an untyped value, nothing is checked
ApiValue_unchecked(data) ==
    Ok([t |-> "ApiValue", nplType |-> None, value |-> data,
        typeName |-> None, prototypeId |-> None])

\* the payload is stored as it is, whatever the tag
ApiValue_shallow(data) ==
    IF ~IsDict(data) \/ ~HasKey(data, "nplType")
    THEN Raise("ValueError")
    ELSE Ok([t |-> "ApiValue", nplType |-> data.o["nplType"],
             value |-> Get(data, "value"),
             typeName |-> Get(data, "typeName"),
             prototypeId |-> Get(data, "prototypeId")])

\* ApiValue.from_dict
ApiValue_from_dict(data) ==
    IF ~IsDict(data) \/ ~HasKey(data, "nplType")
    THEN Raise("ValueError")
    ELSE
        LET npl_type == data.o["nplType"]
            value == Get(data, "value")
            mk(v) == Ok([t |-> "ApiValue",
                         nplType |-> npl_type,
                         value |-> v,
                         typeName |-> Get(data, "typeName"),
                         prototypeId |-> Get(data, "prototypeId")])
        IN  CASE npl_type = JStr("struct") ->
                    IF IsDict(value)
                    THEN LET tagged(val) == IsDict(val) /\ HasKey(val, "nplType")
                             sub == [key \in DOMAIN value.o |->
                                        IF tagged(value.o[key])
                                        THEN ApiValue_from_dict(value.o[key])
                                        ELSE Ok(value.o[key])]
                         IN  IF \E key \in DOMAIN sub : sub[key].exc # ""
                             THEN Raise("ValueError")
                             ELSE mk(JObj([key \in DOMAIN sub |-> sub[key].v]))
                    ELSE mk(value)
              [] npl_type = JStr("dateTime") /\ value.t = "str" ->
                    IF fromisoformat_ok(value.s) THEN mk(value) ELSE Raise("ValueError")
              [] npl_type = JStr("number") ->
                    LET f == number_value(value)
                    IN  IF f.exc # "" THEN Raise("ValueError") ELSE mk(f.v)
              [] OTHER -> mk(value)

\* an argument that fails to decode is left out of the list
decode_arguments_skip_bad(args) ==
    IF args.t = "arr"
    THEN LET r == [i \in DOMAIN args.a |-> ApiValue_from_dict(args.a[i])]
             good == SelectSeq(r, LAMBDA x : x.exc = "")
         IN  Ok(JArr([i \in DOMAIN good |-> good[i].v]))
    ELSE Ok(JArr(<<>>))

\* [ApiValue.from_dict(arg) for arg in data.get('arguments', [])]
decode_arguments(args) ==
    CASE args.t = "arr" ->
            LET r == [i \in DOMAIN args.a |-> ApiValue_from_dict(args.a[i])]
            IN  IF \E i \in DOMAIN r : r[i].exc # ""
                THEN Raise("ValueError")
                ELSE Ok(JArr([i \in DOMAIN r |-> r[i].v]))
      \* iterating a str yields its characters, a dict its keys: none is a dict
      [] args.t = "str" -> IF args.s = "" THEN Ok(JArr(<<>>)) ELSE Raise("ValueError")
      [] args.t = "obj" -> IF DOMAIN args.o = {} THEN Ok(JArr(<<>>)) ELSE Raise("ValueError")
      \* None, a number or a bool is not iterable
      [] OTHER -> Raise("TypeError")

\* [ApiAgent(**agent) for agent in data.get('agents', [])] if data.get('agents') else None
decode_agents(agents) ==
    IF ~Truthy(agents)
    THEN Ok(None)
    ELSE IF agents.t = "arr"
            /\ \A i \in DOMAIN agents.a :
                  IsDict(agents.a[i]) /\ DOMAIN agents.a[i].o = {"id", "party"}
         THEN Ok(agents)
         ELSE Raise("TypeError")

\* ApiNotification.from_dict
ApiNotification_from_dict(data) ==
    IF ~IsDict(data)
    THEN Raise("ValueError")
    ELSE
        LET arguments == decode_arguments(GetOr(data, "arguments", JArr(<<>>)))
            agents == decode_agents(Get(data, "agents"))
        IN  IF arguments.exc # "" THEN Raise(arguments.exc)
            ELSE IF agents.exc # "" THEN Raise(agents.exc)
            ELSE Ok([t |-> "ApiNotification",
                     name |-> GetOr(data, "name", JStr("")),
                     arguments |-> arguments.v.a,
                     type |-> GetOr(data, "type", JStr("notify")),
                     refId |-> Get(data, "refId"),
                     protocolVersion |-> Get(data, "protocolVersion"),
                     created |-> Get(data, "created"),
                     callback |-> Get(data, "callback"),
                     id |-> Get(data, "id"),
                     agents |-> agents.v])

\* "if notification_data is not None" in place of "if notification_data"
has_notification_data_not_none(notification_data) == notification_data # None

\* ApiNotificationPackage.from_dict: "... if notification_data else None"
has_notification_data(notification_data) == Truthy(notification_data)

\* ApiNotificationPackage.from_dict
ApiNotificationPackage_from_dict(data) ==
    IF ~IsDict(data)
    THEN Raise("ValueError")
    ELSE
        LET notification_data == Get(data, "notification")
            notification == IF has_notification_data(notification_data)
                            THEN ApiNotification_from_dict(notification_data)
                            ELSE Ok(None)
        IN  IF notification.exc # "" THEN Raise(notification.exc)
            ELSE Ok([t |-> "ApiNotificationPackage",
                     payloadType |-> GetOr(data, "payloadType", JStr("")),
                     notification |-> notification.v,
                     id |-> Get(data, "id")])

\* a package counts as a notification as soon as it carries one
is_notification_if_present(payload) == payload.notification # None

\* ApiNotificationPackage.is_notification
is_notification(payload) == payload.payloadType = JStr("notify")

\* the prefixes p for which the model tests name = p + suffix
NamePrefixes == {"", "x.y.", "x."}

\* s.endswith(suffix), for the names of the model
endswith(s, suffix) == \E p \in NamePrefixes : s = p \o suffix

\* the name is compared as a whole, without its qualifying prefix
is_request_submission_exact(n) ==
    IF n.name.t # "str" THEN Raise("AttributeError")
    ELSE Ok(JBool(n.name.s = "requestSubmitted"))

\* ApiNotification.is_request_submission; a name that is no str has no
\* endswith (AttributeError)
is_request_submission(n) ==
    IF n.name.t # "str" THEN Raise("AttributeError")
    ELSE Ok(JBool(endswith(n.name.s, "requestSubmitted")))

\* every request notification counts as fulfilled, submitted ones too
is_request_fulfilled_or_submitted(n) ==
    IF n.name.t # "str" THEN Raise("AttributeError")
    ELSE Ok(JBool(endswith(n.name.s, "requestFulfilled")
                    \/ endswith(n.name.s, "requestSubmitted")))

\* ApiNotification.is_request_fulfilled
is_request_fulfilled(n) ==
    IF n.name.t # "str" THEN Raise("AttributeError")
    ELSE Ok(JBool(endswith(n.name.s, "requestFulfilled")))

\* str(x)
py_str(x) ==
    CASE x.t = "str" -> x.s
      [] x.t = "num" -> x.n
      [] x.t = "float" -> x.r
      [] x.t = "bool" -> IF x.b THEN "True" ELSE "False"
      [] x.t = "null" -> "None"
      [] x.t = "arr" -> "[...]"
      [] OTHER -> "{...}"

\* ApiValue.get_value_as(expected_type) without transform
get_value_as(v, expected_type) ==
    IF v.nplType # JStr(expected_type) THEN None ELSE v.value

\* ApiValue.get_text: get_value_as('text', str)
get_text(v) ==
    IF v.nplType # JStr("text") THEN None
    ELSE IF v.value # None THEN JStr(py_str(v.value))
    ELSE v.value

\* ApiValue.get_struct
get_struct(v) == get_value_as(v, "struct")

\* the payload is returned whatever the kind of the value
get_reference_any(v) == v.value

\* ApiValue.get_reference
get_reference(v) == get_value_as(v, "protocolReference")

\* float(x): a float is returned as it is, a number or a numeric string is
\* converted, any other string raises ValueError and any other value TypeError
py_float(x) ==
    CASE x.t = "float" -> Ok(x)
      [] x.t = "num" -> Ok(PyFloat(FloatRepr[x.n]))
      [] x.t = "bool" -> Ok(PyFloat(IF x.b THEN "1.0" ELSE "0.0"))
      [] x.t = "str" ->
            IF x.s \in DOMAIN FloatRepr THEN Ok(PyFloat(FloatRepr[x.s])) ELSE Raise("ValueError")
      [] OTHER -> Raise("TypeError")

\* ApiValue.get_number: get_value_as('number', float)
get_number(v) ==
    IF v.nplType # JStr("number") THEN Ok(None)
    ELSE IF v.value # None THEN py_float(v.value)
    ELSE Ok(v.value)

\* x or ''
or_empty(x) == IF Truthy(x) THEN x ELSE JStr("")

\* ApiNotification.get_response: Ok(None), Ok(the response) or an exception
get_response(n) ==
    LET fulfilled == is_request_fulfilled(n)
    IN  IF fulfilled.exc # "" THEN Raise(fulfilled.exc)
        ELSE IF ~fulfilled.v.b \/ Len(n.arguments) < 2 THEN Ok(None)
        ELSE
            LET ref == get_reference(n.arguments[1])
                ticket == get_struct(n.arguments[2])
            IN  IF ~Truthy(ref) \/ ~Truthy(ticket) THEN Ok(None)
                \* ticket.get(...) on a value that is no dict
                ELSE IF ~IsDict(ticket) THEN Raise("AttributeError")
                ELSE
                    LET title == Get(ticket, "title")
                        contents == Get(ticket, "contents")
                    IN  IF ~Truthy(title) \/ ~Truthy(contents) THEN Ok(None)
                        \* title.get_text() on a raw value that is no ApiValue
                        ELSE IF title.t # "ApiValue" \/ contents.t # "ApiValue"
                        THEN Raise("AttributeError")
                        ELSE Ok([t |-> "NotificationContent",
                                 ref |-> ref,
                                 content |-> [t |-> "ResponseContent",
                                              title |-> or_empty(get_text(title)),
                                              contents |-> or_empty(get_text(contents))]])

\* a view is built from the first two arguments whatever their kinds
get_request_any_kind(n) ==
    LET submitted == is_request_submission(n)
    IN  IF submitted.exc # "" THEN Raise(submitted.exc)
        ELSE IF ~submitted.v.b \/ Len(n.arguments) < 2 THEN Ok(None)
        ELSE Ok([t |-> "NotificationContent",
                 ref |-> n.arguments[1].value,
                 content |-> [t |-> "RequestContent", text |-> n.arguments[2].value]])

\* ApiNotification.get_request: Ok(None), Ok(the request) or an exception
get_request(n) ==
    LET submitted == is_request_submission(n)
    IN  IF submitted.exc # "" THEN Raise(submitted.exc)
        ELSE IF ~submitted.v.b \/ Len(n.arguments) < 2 THEN Ok(None)
        ELSE
            LET ref == get_reference(n.arguments[1])
                text == get_text(n.arguments[2])
            IN  IF ~Truthy(ref) \/ ~Truthy(text) THEN Ok(None)
                ELSE Ok([t |-> "NotificationContent",
                         ref |-> ref,
                         content |-> [t |-> "RequestContent", text |-> text]])

----------------------------------------------------------------------------
(* Payload texts: each JSON text of the model with the value json.loads     *)
(* gives for it. Texts are built from fragments so that the text and the    *)
(* value stay in step.                                                      *)

Frag(text, json) == [text |-> text, json |-> json]

RefR1 == JObj([nplType |-> JStr("protocolReference"), value |-> JStr("R1")])
RefR2 == JObj([nplType |-> JStr("protocolReference"), value |-> JStr("R2")])
RefR3 == JObj([nplType |-> JStr("protocolReference"), value |-> JStr("R3")])
\* the reference of a request that another client created
RefR9 == JObj([nplType |-> JStr("protocolReference"), value |-> JStr("R9")])
TextArg == JObj([nplType |-> JStr("text"), value |-> JStr("do the thing")])
TicketArg ==
    JObj([nplType |-> JStr("struct"),
          value |-> JObj([title |-> JObj([nplType |-> JStr("text"), value |-> JStr("T")]),
                          contents |-> JObj([nplType |-> JStr("text"), value |-> JStr("C")])])])
BadNumberArg == JObj([nplType |-> JStr("number"), value |-> JStr("abc")])
\* a struct whose field inner is a struct with a field that does not decode
NestedBadArg ==
    JObj([nplType |-> JStr("struct"),
          value |-> JObj([inner |->
                    JObj([nplType |-> JStr("struct"),
                          value |-> JObj([when |-> JObj([nplType |-> JStr("dateTime"),
                                                         value |-> JStr("not a date")])])])])])

RefR1Text == "{\"nplType\":\"protocolReference\",\"value\":\"R1\"}"
RefR2Text == "{\"nplType\":\"protocolReference\",\"value\":\"R2\"}"
RefR3Text == "{\"nplType\":\"protocolReference\",\"value\":\"R3\"}"
RefR9Text == "{\"nplType\":\"protocolReference\",\"value\":\"R9\"}"
TextArgText == "{\"nplType\":\"text\",\"value\":\"do the thing\"}"
TicketArgText ==
    "{\"nplType\":\"struct\",\"value\":{\"title\":{\"nplType\":\"text\",\"value\":\"T\"},"
    \o "\"contents\":{\"nplType\":\"text\",\"value\":\"C\"}}}"
BadNumberArgText == "{\"nplType\":\"number\",\"value\":\"abc\"}"
NestedBadArgText ==
    "{\"nplType\":\"struct\",\"value\":{\"inner\":{\"nplType\":\"struct\",\"value\":"
    \o "{\"when\":{\"nplType\":\"dateTime\",\"value\":\"not a date\"}}}}}"

\* the texts and values of a notification object
NotificationFrags ==
    { Frag("{\"name\":\"x.y.requestFulfilled\",\"arguments\":[" \o RefR1Text \o "," \o TicketArgText \o "]}",
           JObj([name |-> JStr("x.y.requestFulfilled"), arguments |-> JArr(<<RefR1, TicketArg>>)])),
      Frag("{\"name\":\"x.y.requestFulfilled\",\"arguments\":[" \o RefR2Text \o "," \o TicketArgText \o "]}",
           JObj([name |-> JStr("x.y.requestFulfilled"), arguments |-> JArr(<<RefR2, TicketArg>>)])),
      Frag("{\"name\":\"x.y.requestFulfilled\",\"arguments\":[" \o RefR3Text \o "," \o TicketArgText \o "]}",
           JObj([name |-> JStr("x.y.requestFulfilled"), arguments |-> JArr(<<RefR3, TicketArg>>)])),
      Frag("{\"name\":\"x.y.requestFulfilled\",\"arguments\":[" \o RefR9Text \o "," \o TicketArgText \o "]}",
           JObj([name |-> JStr("x.y.requestFulfilled"), arguments |-> JArr(<<RefR9, TicketArg>>)])),
      Frag("{\"name\":\"x.y.requestSubmitted\",\"arguments\":[" \o RefR1Text \o "," \o TextArgText \o "]}",
           JObj([name |-> JStr("x.y.requestSubmitted"), arguments |-> JArr(<<RefR1, TextArg>>)])),
      Frag("{\"name\":\"x.y.requestFulfilled\",\"arguments\":[" \o RefR1Text \o "]}",
           JObj([name |-> JStr("x.y.requestFulfilled"), arguments |-> JArr(<<RefR1>>)])),
      Frag("{\"name\":\"n\"}",
           JObj([name |-> JStr("n")])),
      Frag("{\"name\":\"n\",\"arguments\":[" \o BadNumberArgText \o "]}",
           JObj([name |-> JStr("n"), arguments |-> JArr(<<BadNumberArg>>)])),
      Frag("{\"name\":\"n\",\"arguments\":[" \o RefR1Text \o "," \o BadNumberArgText \o "]}",
           JObj([name |-> JStr("n"), arguments |-> JArr(<<RefR1, BadNumberArg>>)])),
      Frag("{\"name\":\"x.y.requestFulfilled\",\"arguments\":[" \o RefR1Text \o "," \o NestedBadArgText \o "]}",
           JObj([name |-> JStr("x.y.requestFulfilled"), arguments |-> JArr(<<RefR1, NestedBadArg>>)])),
      Frag("{\"name\":\"n\",\"arguments\":[5]}",
           JObj([name |-> JStr("n"), arguments |-> JArr(<<JNum("5")>>)])),
      Frag("{\"name\":\"n\",\"arguments\":null}",
           JObj([name |-> JStr("n"), arguments |-> None])),
      Frag("{\"name\":\"n\",\"arguments\":\"ab\"}",
           JObj([name |-> JStr("n"), arguments |-> JStr("ab")])),
      Frag("{\"name\":\"n\",\"agents\":[{\"id\":\"a\",\"party\":\"p\"}]}",
           JObj([name |-> JStr("n"),
                 agents |-> JArr(<<JObj([id |-> JStr("a"), party |-> JStr("p")])>>)])),
      Frag("{\"name\":\"n\",\"agents\":[{\"id\":\"a\"}]}",
           JObj([name |-> JStr("n"), agents |-> JArr(<<JObj([id |-> JStr("a")])>>)])),
      Frag("{\"name\":\"n\",\"agents\":5}",
           JObj([name |-> JStr("n"), agents |-> JNum("5")])),
      Frag("{}", EmptyObj),
      Frag("null", None),
      Frag("\"abc\"", JStr("abc")),
      Frag("[1]", JArr(<<JNum("1")>>)),
      Frag("0", JNum("0")),
      Frag("5", JNum("5")) }

\* the values of the payloadType member
PayloadTypeFrags ==
    { Frag("\"notify\"", JStr("notify")),
      Frag("\"Notify\"", JStr("Notify")),
      Frag("\"notify \"", JStr("notify ")),
      Frag("\"other\"", JStr("other")),
      Frag("\"\"", JStr("")),
      Frag("null", None),
      Frag("5", JNum("5")) }

\* packages: the payloadType member and the notification member, each
\* present or absent
PackageFrags ==
    { Frag("{\"payloadType\":" \o pt.text \o ",\"notification\":" \o n.text \o "}",
           JObj([payloadType |-> pt.json, notification |-> n.json])) :
        pt \in PayloadTypeFrags, n \in NotificationFrags }
    \cup { Frag("{\"payloadType\":" \o pt.text \o "}", JObj([payloadType |-> pt.json])) :
            pt \in PayloadTypeFrags }
    \cup { Frag("{\"notification\":" \o n.text \o "}", JObj([notification |-> n.json])) :
            n \in NotificationFrags }

\* JSON texts that are no package object
OtherJsonFrags ==
    { Frag("{}", EmptyObj),
      Frag("{\"a\":1}", JObj([a |-> JNum("1")])),
      Frag("null", None),
      Frag("[1]", JArr(<<JNum("1")>>)),
      Frag("5", JNum("5")),
      Frag("\"notify\"", JStr("notify")) }

JsonTexts == PackageFrags \cup OtherJsonFrags

\* strings that are not JSON
NotJsonTexts == {"", "not json", "{\"payloadType\":\"notify\",", "{'a':1}"}


\* the value of each JSON text
JsonValue ==
    [text \in {e.text : e \in JsonTexts} |-> (CHOOSE e \in JsonTexts : e.text = text).json]

\* json.loads
json_loads(text) ==
    IF text \in DOMAIN JsonValue THEN Ok(JsonValue[text]) ELSE Raise("JSONDecodeError")

\* the payload texts process_notification is called with
PayloadTexts == DOMAIN JsonValue \cup NotJsonTexts

----------------------------------------------------------------------------
(* client/handlers/notification_handler.py *)

\* What one process_notification call did: the exception it let through
\* ("" when it returned), the line it logged, and the notifications it
\* passed to handle_notification.
CallResult(exc, log, calls) == [exc |-> exc, log |-> log, calls |-> calls]

\* The body of the try block. h is the outcome of handle_notification when it
\* is called: "" (returns) or the class of the exception it raises.
try_body(text, h) ==
    LET data == json_loads(text)
    IN  IF data.exc # ""
        THEN CallResult(data.exc, "", <<>>)
        ELSE
            LET payload == ApiNotificationPackage_from_dict(data.v)
            IN  IF payload.exc = "ValueError"
                THEN CallResult("", "Invalid notification format", <<>>)
                ELSE IF payload.exc # ""
                THEN CallResult(payload.exc, "", <<>>)
                ELSE IF ~is_notification(payload.v)
                THEN CallResult("", "Ignoring non-notification payload", <<>>)
                ELSE IF ~Truthy(payload.v.notification)
                THEN CallResult("", "Missing notification data in payload", <<>>)
                ELSE CallResult(h, "", <<payload.v.notification>>)

\* except json.JSONDecodeError only: every other exception propagates
except_json_only(r) ==
    IF r.exc = "JSONDecodeError"
    THEN [r EXCEPT !.exc = "", !.log = "Error decoding notification data"]
    ELSE r

\* except json.JSONDecodeError: ... except Exception: ...
except_clauses(r) ==
    CASE r.exc = "" -> r
      [] r.exc = "JSONDecodeError" ->
            [r EXCEPT !.exc = "", !.log = "Error decoding notification data"]
      [] OTHER ->
            [r EXCEPT !.exc = "", !.log = "Error processing notification"]

\* BaseNotificationHandler.process_notification
process_notification(text, h) == except_clauses(try_body(text, h))

\* Outcomes of a handle_notification implementation: it returns, or raises
\* an exception (AgentNotificationHandler raises NotificationError)
HandlerOutcomes == {"", "NotificationError", "ValueError", "JSONDecodeError"}

----------------------------------------------------------------------------
(* SpecDispatch: process_notification called on any payload text, with any  *)
(* handler outcome.                                                         *)

NoExc == [exc |-> "", at |-> ""]

\* the stream consumer of an adapter before its first payload
NoDelivery ==
    [n |-> 0, ref |-> None, send_ok |-> FALSE, exc |-> "", created |-> FALSE,
     dest_recorded |-> FALSE, consumed |-> FALSE, sent |-> <<>>]

NoCall == [text |-> "", h |-> "", r |-> CallResult("", "", <<>>), n |-> 0]

\* the main thread runs and no shutdown has been signalled
InitRunning ==
    /\ main_pc = "running"
    /\ shutdown_event = FALSE

InitIdle ==
    /\ http = <<>>
    /\ InitRunning
    /\ sse_pc = "idle"
    /\ sse_exc = NoExc
    /\ current_event = [event |-> <<>>, data |-> <<>>]
    /\ lines_read = <<>>
    /\ dispatched = <<>>
    /\ handled = <<>>

InitNoAdapter ==
    /\ app = "none"
    /\ destination = None
    /\ messages = <<>>
    /\ requests = <<>>
    /\ recorded = {}
    /\ stream = NoDelivery
    /\ posts = <<>>

InitDispatch ==
    /\ results = NoCall
    /\ InitIdle
    /\ InitNoAdapter

ProcessNotification ==
    \E text \in PayloadTexts, h \in HandlerOutcomes :
        /\ results' = [text |-> text, h |-> h, r |-> process_notification(text, h), n |-> 1]
        /\ UNCHANGED <<sse_pc, sse_exc, current_event, lines_read, dispatched, handled,
                       app, destination, messages, requests, recorded, stream, posts,
                   http, main_pc, shutdown_event>>

NextDispatch == ProcessNotification

SpecDispatch == InitDispatch /\ [][NextDispatch]_vars

\* C5: process_notification never raises to its caller: whatever the payload
\* text and whatever handle_notification does (returns or raises), no
\* exception leaves the call.
C5_NeverRaises == results.r.exc = ""

\* a handler that raised was called and the call still returned
C5_Witness ==
    /\ results.n = 1
    /\ results.h = "NotificationError"
    /\ Len(results.r.calls) = 1
    /\ results.r.exc = ""

\* C7: a package whose payloadType member is not exactly "notify" (absent
\* included) never reaches handle_notification, whatever its notification
\* member holds.
C7_NonNotifyNeverHandled ==
    LET data == json_loads(results.text)
    IN  (/\ results.n = 1
         /\ data.exc = ""
         /\ IsDict(data.v)
         /\ Get(data.v, "payloadType") # JStr("notify"))
        => results.r.calls = <<>>

\* a non-notify package carrying a notification that decodes was processed
C7_Witness ==
    LET data == json_loads(results.text)
    IN  /\ results.n = 1
        /\ data.exc = ""
        /\ IsDict(data.v)
        /\ Get(data.v, "payloadType") = JStr("other")
        /\ IsDict(Get(data.v, "notification"))
        /\ ApiNotification_from_dict(Get(data.v, "notification")).exc = ""
        /\ Get(Get(data.v, "notification"), "name") = JStr("x.y.requestFulfilled")
        /\ results.r.calls = <<>>

\* C8: the gates apply in order (JSON parse, package decode, payloadType =
\* "notify", notification present): the first failing gate drops the payload
\* with its own log line and no handler call; a payload passing all four is
\* handed to handle_notification exactly once, as the decoded notification.
C8_GatesInOrder ==
    LET data == json_loads(results.text)
        pkg == ApiNotificationPackage_from_dict(data.v)
        r == results.r
    IN  results.n = 1 =>
            IF data.exc # ""
            THEN r.calls = <<>> /\ r.log = "Error decoding notification data"
            ELSE IF pkg.exc # ""
            THEN /\ r.calls = <<>>
                 /\ r.log \in {"Invalid notification format", "Error processing notification"}
            ELSE IF Get(data.v, "payloadType") # JStr("notify")
            THEN r.calls = <<>> /\ r.log = "Ignoring non-notification payload"
            ELSE IF ~Truthy(Get(data.v, "notification"))
            THEN r.calls = <<>> /\ r.log = "Missing notification data in payload"
            ELSE r.calls = <<ApiNotification_from_dict(Get(data.v, "notification")).v>>

\* a notify package with a notification was handed to the handler
C8_Witness ==
    /\ results.n = 1
    /\ results.h = ""
    /\ Len(results.r.calls) = 1
    /\ results.r.calls[1].name = JStr("x.y.requestFulfilled")


RECURSIVE FailsToDecode(_)
\* the raw value cannot be decoded: it is no tagged dict, a number whose
\* payload is no number, a dateTime whose string is no date, or a struct
\* with a tagged field that cannot be decoded
FailsToDecode(raw) ==
    \/ ~IsDict(raw)
    \/ ~HasKey(raw, "nplType")
    \/ /\ raw.o["nplType"] = JStr("number")
       /\ \/ Get(raw, "value").t \in {"bool", "arr", "obj"}
          \/ Get(raw, "value").t = "str" /\ Get(raw, "value").s \notin DOMAIN FloatRepr
    \/ /\ raw.o["nplType"] = JStr("dateTime")
       /\ Get(raw, "value").t = "str"
       /\ ~fromisoformat_ok(Get(raw, "value").s)
    \/ /\ raw.o["nplType"] = JStr("struct")
       /\ IsDict(Get(raw, "value"))
       /\ \E key \in DOMAIN Get(raw, "value").o :
             LET val == Get(raw, "value").o[key]
             IN  IsDict(val) /\ HasKey(val, "nplType") /\ FailsToDecode(val)

\* the payload text is a JSON object whose notification has a list of
\* arguments of which one cannot be decoded
HasBadArgument(text) ==
    /\ text \in DOMAIN JsonValue
    /\ IsDict(JsonValue[text])
    /\ HasKey(JsonValue[text], "notification")
    /\ IsDict(JsonValue[text].o["notification"])
    /\ HasKey(JsonValue[text].o["notification"], "arguments")
    /\ LET args == JsonValue[text].o["notification"].o["arguments"]
       IN  args.t = "arr" /\ \E i \in DOMAIN args.a : FailsToDecode(args.a[i])

\* C29: decoding is all-or-nothing: when an argument of the notification, at
\* any position and at any depth inside tagged struct fields, fails to decode,
\* no notification is produced and the handler is not called for the payload;
\* process_notification logs the payload as invalid and returns.
C29_AllOrNothing ==
    (results.n = 1 /\ HasBadArgument(results.text)) =>
        /\ results.r.calls = <<>>
        /\ results.r.exc = ""
        /\ results.r.log = "Invalid notification format"

\* a notify payload whose second argument fails two struct levels down
C29_Witness ==
    /\ results.n = 1
    /\ results.text \in DOMAIN JsonValue
    /\ JsonValue[results.text] =
          JObj([payloadType |-> JStr("notify"),
                notification |-> JObj([name |-> JStr("x.y.requestFulfilled"),
                                       arguments |-> JArr(<<RefR1, NestedBadArg>>)])])
    /\ results.h = ""
    /\ results.r.calls = <<>>
    /\ results.r.log = "Invalid notification format"

----------------------------------------------------------------------------
(* client/stream.py *)

\* A line of the stream is a sequence of tokens: ":" and " " stand for
\* themselves, BadByte for a byte sequence that is not valid UTF-8, and any
\* other token is a run of characters holding no colon and no leading space.
BadByte == "\\xff"

RECURSIVE Concat(_)
\* the text of a token sequence
Concat(tokens) ==
    IF tokens = <<>> THEN "" ELSE Head(tokens) \o Concat(Tail(tokens))

\* Optional[str]: <<>> is None, <<s>> is the string s
Some(s) == <<s>>

\* ServerSentEvent()
ServerSentEvent == [event |-> <<>>, data |-> <<>>]

\* line.decode('utf-8') raises UnicodeDecodeError
decode_fails(line) == \E i \in DOMAIN line : line[i] = BadByte

\* index of the first ":" of the line, 0 when it has none
FirstColon(line) ==
    IF \E i \in DOMAIN line : line[i] = ":"
    THEN CHOOSE i \in DOMAIN line : line[i] = ":" /\ \A j \in 1..(i - 1) : line[j] # ":"
    ELSE 0

RECURSIVE lstrip(_)
\* the tokens without their leading spaces
lstrip(tokens) ==
    IF tokens # <<>> /\ Head(tokens) = " " THEN lstrip(Tail(tokens)) ELSE tokens

\* every leading space of the value is removed
parse_sse_lstrip(line) ==
    IF line = <<>> \/ FirstColon(line) = 0
    THEN <<>>
    ELSE LET i == FirstColon(line)
         IN  <<Concat(SubSeq(line, 1, i - 1)), Concat(lstrip(SubSeq(line, i + 1, Len(line))))>>

\* parse_sse: <<>> for None, else <<field, value>>
parse_sse(line) ==
    IF line = <<>> \/ FirstColon(line) = 0
    THEN <<>>
    ELSE LET i == FirstColon(line)
             value == SubSeq(line, i + 1, Len(line))
             stripped == IF value # <<>> /\ Head(value) = " " THEN Tail(value) ELSE value
         IN  <<Concat(SubSeq(line, 1, i - 1)), Concat(stripped)>>

\* the heartbeat test compares with another token
is_heartbeat_ping(ev) == ev.event = Some("ping")

\* current_event.event == 'tick'
is_heartbeat(ev) == ev.event = Some("tick")

\* an event with an empty data value is dispatched too
should_dispatch_any_data(ev) == ev.data # <<>> /\ ~is_heartbeat(ev)

\* "if current_event.data and current_event.event != 'tick'"
should_dispatch(ev) == ev.data # <<>> /\ ev.data # Some("") /\ ~is_heartbeat(ev)

\* the event is reset only after it was dispatched
after_blank_if_dispatched(ev) == IF should_dispatch(ev) THEN ServerSentEvent ELSE ev

\* "current_event = ServerSentEvent()" after a blank line
after_blank(ev) == ServerSentEvent

\* the field assignments of a parsed line
with_field(ev, parsed) ==
    IF parsed = <<>> THEN ev
    ELSE IF parsed[1] = "event" THEN [ev EXCEPT !.event = Some(parsed[2])]
    ELSE IF parsed[1] = "data" THEN [ev EXCEPT !.data = Some(parsed[2])]
    ELSE ev

----------------------------------------------------------------------------
(* The lines response.iter_lines() can yield *)

BlankLine == <<>>
TickLine == <<"event", ":", " ", "tick">>
MessageLine == <<"event", ":", " ", "message">>
DataEmptyLine == <<"data", ":">>
DataEmptyObjLine == <<"data", ":", " ", "{}">>
DataA1Line == <<"data", ":", " ", "{\"a\"", ":", "1}">>
DataNotJsonLine == <<"data", ":", " ", "not json">>
\* a line whose bytes are not valid UTF-8
DataBadByteLine == <<"data", ":", " ", BadByte>>
\* data: a notify package holding a requestFulfilled notification for R1
DataFulfilledLine ==
    <<"data", ":", " ", "{\"payloadType\"", ":", "\"notify\",\"notification\"", ":",
      "{\"name\"", ":", "\"x.y.requestFulfilled\",\"arguments\"", ":", "[{\"nplType\"",
      ":", "\"protocolReference\",\"value\"", ":", "\"R1\"},{\"nplType\"", ":",
      "\"struct\",\"value\"", ":", "{\"title\"", ":", "{\"nplType\"", ":",
      "\"text\",\"value\"", ":", "\"T\"},\"contents\"", ":", "{\"nplType\"", ":",
      "\"text\",\"value\"", ":", "\"C\"}}}]}}">>

StreamLines ==
    { BlankLine, TickLine, MessageLine, DataEmptyLine, DataEmptyObjLine, DataA1Line, DataNotJsonLine,
      DataBadByteLine, DataFulfilledLine }

\* the number of lines one stream delivers in the model
MaxLines == 5

\* outcomes of handle_notification below consume_sse's callback
StreamHandlerOutcomes == {"", "NotificationError"}

----------------------------------------------------------------------------
(* SpecStream: consume_sse(url, handler.process_notification) *)

InitStream ==
    /\ results = NoCall
    /\ http = <<>>
    /\ InitRunning
    /\ sse_pc = "start"
    /\ sse_exc = NoExc
    /\ current_event = ServerSentEvent
    /\ lines_read = <<>>
    /\ dispatched = <<>>
    /\ handled = <<>>
    /\ InitNoAdapter

\* the connection is opened before the token is requested
connect_calls_get_first(at) == <<"requests.get", "fetch_access_token">>

\* the calls consume_sse has made to the token provider and to the backend
\* when the call named at raises, or when all have returned (at = "")
connect_calls(at) ==
    IF at = "fetch_access_token" THEN <<"fetch_access_token">>
    ELSE <<"fetch_access_token", "requests.get">>

\* a failed set-up is tried again
retry_on_exception(at) ==
    IF at \in {"fetch_access_token", "requests.get", "raise_for_status"}
    THEN "start" ELSE "raised"

\* "except ...: logger.error(...); raise": whichever call raised, consume_sse
\* ends by raising to its caller
on_exception(at) == "raised"

\* fetch_access_token(), requests.get(...) and raise_for_status() succeed
Connect ==
    /\ sse_pc = "start"
    /\ sse_pc' = "reading"
    /\ http' = http \o connect_calls("")
    /\ current_event' = ServerSentEvent
    /\ UNCHANGED <<results, sse_exc, lines_read, dispatched, handled,
                   app, destination, messages, requests, recorded, stream, posts,
                   main_pc, shutdown_event>>

\* one of them raises: the except clauses log and re-raise
ConnectFails ==
    /\ sse_pc = "start"
    /\ \E e \in { [exc |-> "ValueError", at |-> "fetch_access_token"],
                  [exc |-> "RequestException", at |-> "fetch_access_token"],
                  [exc |-> "RequestException", at |-> "requests.get"],
                  [exc |-> "RequestException", at |-> "raise_for_status"] } :
            /\ sse_exc' = e
            /\ http' = http \o connect_calls(e.at)
            /\ sse_pc' = on_exception(e.at)
    /\ UNCHANGED <<results, current_event, lines_read, dispatched, handled,
                   app, destination, messages, requests, recorded, stream, posts,
                   main_pc, shutdown_event>>

\* one iteration of "for line in response.iter_lines()" on a blank line
ReadBlankLine ==
    /\ sse_pc = "reading"
    /\ Len(lines_read) < MaxLines
    /\ lines_read' = Append(lines_read, BlankLine)
    /\ IF should_dispatch(current_event)
       THEN \E h \in StreamHandlerOutcomes :
                LET text == current_event.data[1]
                    r == process_notification(text, h)
                IN  /\ dispatched' = Append(dispatched,
                            [data |-> text, event |-> current_event.event,
                             at |-> Len(lines_read) + 1])
                    /\ handled' = handled \o r.calls
                    /\ IF r.exc = ""
                       THEN /\ current_event' = after_blank(current_event)
                            /\ UNCHANGED <<sse_pc, sse_exc>>
                       ELSE /\ sse_pc' = on_exception("callback")
                            /\ sse_exc' = [exc |-> r.exc, at |-> "callback"]
                            /\ UNCHANGED current_event
       ELSE /\ current_event' = after_blank(current_event)
            /\ UNCHANGED <<sse_pc, sse_exc, dispatched, handled>>
    /\ UNCHANGED <<results, app, destination, messages, requests, recorded, stream, posts,
                   http, main_pc, shutdown_event>>

\* one iteration on a non-empty line: decode, parse_sse, field assignment
ReadFieldLine ==
    /\ sse_pc = "reading"
    /\ Len(lines_read) < MaxLines
    /\ \E line \in StreamLines \ {BlankLine} :
        /\ lines_read' = Append(lines_read, line)
        /\ IF decode_fails(line)
           THEN \* UnicodeDecodeError is a ValueError: logged and re-raised
                /\ sse_pc' = on_exception("line.decode")
                /\ sse_exc' = [exc |-> "UnicodeDecodeError", at |-> "line.decode"]
                /\ UNCHANGED current_event
           ELSE /\ current_event' = with_field(current_event, parse_sse(line))
                /\ UNCHANGED <<sse_pc, sse_exc>>
    /\ UNCHANGED <<results, dispatched, handled,
                   app, destination, messages, requests, recorded, stream, posts,
                   http, main_pc, shutdown_event>>

\* the server closes the stream: iter_lines() is exhausted and consume_sse
\* returns
StreamEnds ==
    /\ sse_pc = "reading"
    /\ sse_pc' = "returned"
    /\ UNCHANGED <<results, sse_exc, current_event, lines_read, dispatched, handled,
                   app, destination, messages, requests, recorded, stream, posts,
                   http, main_pc, shutdown_event>>

\* the connection breaks: iter_lines() raises a RequestException
StreamBreaks ==
    /\ sse_pc = "reading"
    /\ sse_pc' = on_exception("iter_lines")
    /\ sse_exc' = [exc |-> "RequestException", at |-> "iter_lines"]
    /\ UNCHANGED <<results, current_event, lines_read, dispatched, handled,
                   app, destination, messages, requests, recorded, stream, posts,
                   http, main_pc, shutdown_event>>

NextStream ==
    \/ Connect
    \/ ConnectFails
    \/ ReadBlankLine
    \/ ReadFieldLine
    \/ StreamEnds
    \/ StreamBreaks

SpecStream == InitStream /\ [][NextStream]_vars

----------------------------------------------------------------------------
(* The events of a stream, read off the lines that were delivered *)

\* the number of the last blank line before line k, 0 when there is none
PrevBlank(ls, k) ==
    IF \E j \in 1..(k - 1) : ls[j] = BlankLine
    THEN CHOOSE j \in 1..(k - 1) :
            ls[j] = BlankLine /\ \A i \in (j + 1)..(k - 1) : ls[i] # BlankLine
    ELSE 0

\* the lines of the event that the blank line k terminates
Segment(ls, k) == SubSeq(ls, PrevBlank(ls, k) + 1, k - 1)

\* the value of the last line of seg that sets field, None when none does
LastValue(seg, field) ==
    LET sets(i) == parse_sse(seg[i]) # <<>> /\ parse_sse(seg[i])[1] = field
    IN  IF \E i \in DOMAIN seg : sets(i)
        THEN LET i == CHOOSE i \in DOMAIN seg :
                        sets(i) /\ \A j \in (i + 1)..Len(seg) : ~sets(j)
             IN  Some(parse_sse(seg[i])[2])
        ELSE <<>>

\* the blank lines read so far
Blanks == {k \in DOMAIN lines_read : lines_read[k] = BlankLine}

\* the payload text passes every gate of the dispatcher
IsWellFormedNotify(text) ==
    LET data == json_loads(text)
        pkg == ApiNotificationPackage_from_dict(data.v)
    IN  /\ data.exc = ""
        /\ pkg.exc = ""
        /\ Get(data.v, "payloadType") = JStr("notify")
        /\ Truthy(Get(data.v, "notification"))

\* the event ended by blank line k carries a well-formed notify payload and
\* is no heartbeat
CarriesNotify(k) ==
    LET seg == Segment(lines_read, k)
        data == LastValue(seg, "data")
    IN  /\ data # <<>>
        /\ IsWellFormedNotify(data[1])
        /\ LastValue(seg, "event") # Some("tick")

\* C6: failure isolation over the stream: consumption ends only when the
\* transport fails or the stream ends, never because of an event that was
\* read, and every well-formed notify payload read so far has reached the
\* handler whatever came before it.
C6_FailureIsolation ==
    /\ sse_pc = "raised" =>
          sse_exc.at \in {"fetch_access_token", "requests.get", "raise_for_status", "iter_lines"}
    /\ Len(handled) = Cardinality({k \in Blanks : CarriesNotify(k)})

\* the same with streams of valid UTF-8 only
C6_IsolationOfDecodableLines ==
    (\A i \in DOMAIN lines_read : ~decode_fails(lines_read[i])) => C6_FailureIsolation

\* C9: an event whose event field is "tick" is never passed to the callback,
\* whatever its data; the stream "event: tick", "data: {}", "", 
\* "data: {"a":1}", "" dispatches exactly one payload, {"a":1}.
C9_HeartbeatSuppressed ==
    /\ \A i \in DOMAIN dispatched :
          /\ dispatched[i].event # Some("tick")
          /\ LastValue(Segment(lines_read, dispatched[i].at), "event") # Some("tick")
    /\ lines_read = <<TickLine, DataEmptyObjLine, BlankLine, DataA1Line, BlankLine>>
          => /\ Len(dispatched) = 1
             /\ dispatched[1].data = "{\"a\":1}"

\* the heartbeat stream of the claim was read to its end
C9_Witness ==
    /\ lines_read = <<TickLine, DataEmptyObjLine, BlankLine, DataA1Line, BlankLine>>
    /\ Len(dispatched) = 1

\* C10: after every blank line the accumulated event is empty, dispatched or
\* not; whether the event ended by a blank line is dispatched, and with what
\* payload, depends only on that event's own lines.
C10_EventStateReset ==
    /\ (lines_read # <<>> /\ lines_read[Len(lines_read)] = BlankLine)
          => current_event = ServerSentEvent
    /\ \A k \in Blanks :
          LET seg == Segment(lines_read, k)
              data == LastValue(seg, "data")
              event == LastValue(seg, "event")
              calls == {i \in DOMAIN dispatched : dispatched[i].at = k}
          IN  IF data \notin {<<>>, Some("")} /\ event # Some("tick")
              THEN /\ Cardinality(calls) = 1
                   /\ \A i \in calls : dispatched[i].data = data[1]
              ELSE calls = {}

\* a suppressed heartbeat with data was followed by an event that was
\* dispatched, and the event state is empty again
C10_Witness ==
    /\ lines_read = <<TickLine, DataA1Line, BlankLine, DataFulfilledLine, BlankLine>>
    /\ Len(dispatched) = 1
    /\ dispatched[1].data = Concat(SubSeq(DataFulfilledLine, 4, Len(DataFulfilledLine)))
    /\ Len(handled) = 1
    /\ current_event = ServerSentEvent

\* the number of calls to a collaborator that consume_sse has made
CallsTo(name) == Cardinality({i \in DOMAIN http : http[i] = name})

\* the calls whose failure is a transport failure
TransportCalls == {"fetch_access_token", "requests.get", "raise_for_status", "iter_lines"}

\* C12: consume_sse does not retry: in one call it requests at most one
\* token and opens at most one connection; a transport failure makes it
\* raise to its caller, and once it has raised nothing more is requested,
\* read or passed to the callback.
C12_NoInternalRetry ==
    /\ [](/\ CallsTo("fetch_access_token") <= 1
          /\ CallsTo("requests.get") <= 1
          /\ sse_exc.at \in TransportCalls => sse_pc = "raised")
    /\ [][sse_exc.at \in TransportCalls =>
              UNCHANGED <<sse_pc, http, lines_read, dispatched, handled>>]_vars

\* the connection broke after a payload had been passed to the callback
C12_Witness ==
    /\ sse_pc = "raised"
    /\ sse_exc = [exc |-> "RequestException", at |-> "iter_lines"]
    /\ Len(dispatched) = 1
    /\ CallsTo("requests.get") = 1

\* C13: when acquiring the token fails, consume_sse raises that failure
\* without opening the stream connection and without calling the callback.
C13_TokenFailureIsFatal ==
    sse_exc.at = "fetch_access_token" =>
        /\ sse_pc = "raised"
        /\ sse_exc.exc \in {"ValueError", "RequestException"}
        /\ CallsTo("requests.get") = 0
        /\ lines_read = <<>>
        /\ dispatched = <<>>

\* fetch_access_token raised ValueError and consume_sse raised it
C13_Witness ==
    /\ sse_pc = "raised"
    /\ sse_exc = [exc |-> "ValueError", at |-> "fetch_access_token"]
    /\ http = <<"fetch_access_token">>

\* C15: consume_sse never returns normally: whenever the stream ends, its
\* caller gets an exception.
C15_NeverReturnsNormally == sse_pc # "returned"

----------------------------------------------------------------------------
(* slack_connector and teams_connector: inbound messages create backend     *)
(* requests, the stream consumer delivers request-fulfilled notifications.  *)

\* the chat channels (Slack channel ids, Teams conversation ids)
Channels == {"A", "B"}

\* inbound messages handled in one run of the model
MaxMessages == 2

\* payloads the stream consumer processes in one run of the model
MaxNotifications == 2

\* the reference the backend gives the k-th request this adapter creates
RefOf(k) == JStr(<<"R1", "R2", "R3">>[k])

\* the references of the requests this adapter may create
OwnRefs == {RefOf(k) : k \in 1..3}

\* a notify package around a notification text
NotifyText(ntext) == "{\"payloadType\":\"notify\",\"notification\":" \o ntext \o "}"

\* a requestFulfilled notification for a reference, with a ticket
FulfilledText(reftext) ==
    "{\"name\":\"x.y.requestFulfilled\",\"arguments\":[" \o reftext \o "," \o TicketArgText \o "]}"

\* the payloads the backend stream carries to an adapter
AdapterTexts ==
    { NotifyText(FulfilledText(RefR1Text)),
      NotifyText(FulfilledText(RefR2Text)),
      NotifyText(FulfilledText(RefR3Text)),
      NotifyText(FulfilledText(RefR9Text)),
      NotifyText("{\"name\":\"x.y.requestFulfilled\",\"arguments\":[" \o RefR1Text \o "]}"),
      NotifyText("{\"name\":\"x.y.requestSubmitted\",\"arguments\":[" \o RefR1Text \o "," \o TextArgText \o "]}") }

\* TurnContext.get_conversation_reference(activity).as_dict()
ConversationReference(id) ==
    IF id = "" THEN JObj([conversation |-> EmptyObj])
    ELSE JObj([conversation |-> JObj([id |-> JStr(id)])])

\* conversation_reference.get('conversation', {}).get('id')
conversation_id(conversation_reference) ==
    Get(GetOr(conversation_reference, "conversation", EmptyObj), "id")

\* What a handle_notification call did: the exception it raised ("" when it
\* returned) and the chat messages it sent.
Handled(exc, sent) == [exc |-> exc, sent |-> sent]

\* a message is posted for every notification, whatever its name
slack_post_any(n, channel, send_ok) ==
    IF ~Truthy(channel) \/ ~send_ok THEN Handled("", <<>>)
    ELSE Handled("", <<[channel |-> channel, text |-> n.name, ref |-> None]>>)

\* SlackNotificationHandler.handle_notification with _handle_request_fulfillment;
\* send_ok: chat_postMessage returns, else it raises
slack_handle_notification(n, channel, send_ok) ==
    LET fulfilled == is_request_fulfilled(n)
    IN  IF fulfilled.exc # "" THEN Handled(fulfilled.exc, <<>>)
        ELSE IF ~fulfilled.v.b THEN Handled("", <<>>)
        ELSE
            LET response == get_response(n)
            IN  IF response.exc # "" THEN Handled("", <<>>)
                ELSE IF ~Truthy(response.v) THEN Handled("", <<>>)
                ELSE IF ~Truthy(channel) THEN Handled("", <<>>)
                ELSE IF ~send_ok THEN Handled("", <<>>)
                ELSE Handled("", <<[channel |-> channel,
                                    text |-> response.v.content.contents,
                                    ref |-> response.v.ref]>>)

\* TeamsNotificationHandler.handle_notification with _handle_request_fulfillment;
\* send_ok: the adapter is a BotFrameworkAdapter, the stored reference holds
\* the fields of the activity, and create_connector_client and
\* send_activities return; otherwise nothing is sent
teams_handle_notification(n, conversation_reference, send_ok) ==
    LET fulfilled == is_request_fulfilled(n)
    IN  IF fulfilled.exc # "" THEN Handled(fulfilled.exc, <<>>)
        ELSE IF ~fulfilled.v.b THEN Handled("", <<>>)
        ELSE IF ~Truthy(conversation_reference)
                \/ ~Truthy(conversation_id(conversation_reference))
        THEN Handled("", <<>>)
        ELSE
            LET response == get_response(n)
            IN  IF response.exc # "" THEN Handled("", <<>>)
                ELSE IF ~Truthy(response.v) THEN Handled("", <<>>)
                ELSE IF ~send_ok THEN Handled("", <<>>)
                ELSE Handled("", <<[channel |-> conversation_id(conversation_reference),
                                    text |-> response.v.content.contents,
                                    ref |-> response.v.ref]>>)

\* SlackNotificationHandler.set_channel: the new value of self.channel
set_channel(old, channel) == JStr(channel)

\* the reference is stored whether or not it has a conversation id
set_conversation_reference_unchecked(old, conversation_reference) ==
    conversation_reference

\* TeamsNotificationHandler.set_conversation_reference: the new value of
\* self.conversation_reference
set_conversation_reference(old, conversation_reference) ==
    IF ~Truthy(conversation_id(conversation_reference)) THEN old
    ELSE conversation_reference

InitAdapter ==
    /\ results = NoCall
    /\ InitIdle
    /\ app \in {"slack", "teams"}
    /\ destination = None
    /\ messages = <<>>
    /\ requests = <<>>
    /\ recorded = {}
    /\ stream = NoDelivery
    /\ posts = <<>>

AdapterFrame == UNCHANGED <<results, sse_pc, sse_exc, current_event, lines_read,
                            dispatched, handled, app, http, main_pc, shutdown_event>>

\* a user writes in a channel: the chat platform invokes the message handler.
\* A Teams activity may carry no conversation id (id ""). The field before
\* holds the conversation reference the Teams handler stored when
\* _handle_message_activity began to handle the message.
MessageArrives ==
    /\ Len(messages) < MaxMessages
    /\ \E ch \in Channels \cup (IF app = "teams" THEN {""} ELSE {}) :
          messages' = Append(messages, [channel |-> ch, pc |-> "start", before |-> None])
    /\ AdapterFrame
    /\ UNCHANGED <<destination, requests, recorded, stream, posts,
                   http, main_pc, shutdown_event>>

\* handle_im: self.app.client.users_info(...) and the email lookup
SlackUsersInfo(m) ==
    /\ app = "slack"
    /\ messages[m].pc = "start"
    /\ \E ok \in BOOLEAN :
          messages' = [messages EXCEPT ![m].pc = IF ok THEN "looked_up" ELSE "failed"]
    /\ AdapterFrame
    /\ UNCHANGED <<destination, requests, recorded, stream, posts,
                   http, main_pc, shutdown_event>>

\* handle_im: self.api_client.create_request(...) returns, or raises ApiError
SlackCreateRequest(m) ==
    /\ app = "slack"
    /\ messages[m].pc = "looked_up"
    /\ \/ /\ requests' = Append(requests, m)
          /\ messages' = [messages EXCEPT ![m].pc = "created"]
       \/ /\ messages' = [messages EXCEPT ![m].pc = "failed"]
          /\ UNCHANGED requests
    /\ AdapterFrame
    /\ UNCHANGED <<destination, recorded, stream, posts,
                   http, main_pc, shutdown_event>>

\* set_channel is also reached when users_info or create_request raised
set_channel_on_failure(pc) == pc \in {"created", "failed"}

\* handle_im reaches the set_channel statement once create_request has
\* returned: an exception of users_info or create_request leaves handle_im
set_channel_reached(pc) == pc = "created"

\* handle_im: self.notification_handler.set_channel(event["channel"])
SlackSetChannel(m) ==
    /\ app = "slack"
    /\ set_channel_reached(messages[m].pc)
    /\ destination' = set_channel(destination, messages[m].channel)
    /\ recorded' = recorded \cup {m}
    /\ messages' = [messages EXCEPT ![m].pc = "done"]
    /\ AdapterFrame
    /\ UNCHANGED <<requests, stream, posts>>

\* _handle_message_activity up to set_conversation_reference(...); the
\* coroutine does not yield before create_request, so no other activity is
\* between the two
TeamsSetReference(m) ==
    /\ app = "teams"
    /\ messages[m].pc = "start"
    /\ \A m2 \in DOMAIN messages : messages[m2].pc # "recorded"
    /\ LET conversation_reference == ConversationReference(messages[m].channel)
       IN  IF ~Truthy(conversation_id(conversation_reference))
           THEN /\ messages' = [messages EXCEPT ![m].pc = "rejected",
                                                ![m].before = destination]
                /\ UNCHANGED <<destination, recorded>>
           ELSE /\ destination' = set_conversation_reference(destination, conversation_reference)
                /\ recorded' = recorded \cup {m}
                /\ messages' = [messages EXCEPT ![m].pc = "recorded",
                                                ![m].before = destination]
    /\ AdapterFrame
    /\ UNCHANGED <<requests, stream, posts>>

\* _handle_message_activity: self.api_client.create_request(...) returns, or
\* raises ApiError
TeamsCreateRequest(m) ==
    /\ app = "teams"
    /\ messages[m].pc = "recorded"
    /\ \/ /\ requests' = Append(requests, m)
          /\ messages' = [messages EXCEPT ![m].pc = "done"]
       \/ /\ messages' = [messages EXCEPT ![m].pc = "failed"]
          /\ UNCHANGED requests
    /\ AdapterFrame
    /\ UNCHANGED <<destination, recorded, stream, posts,
                   http, main_pc, shutdown_event>>

\* the reference of the response that the notification handed to
\* handle_notification carries, None when there is no well-formed response
response_ref(calls) ==
    IF calls = <<>> THEN None
    ELSE LET response == get_response(calls[1])
         IN  IF response.exc # "" \/ ~Truthy(response.v) THEN None
             ELSE response.v.ref

\* the requests created so far that carry reference ref
CreatedAs(ref) == {k \in DOMAIN requests : RefOf(k) = ref}

\* the stream consumer thread hands one payload to process_notification,
\* which calls the adapter's handle_notification
DeliverNotification ==
    /\ app \in {"slack", "teams"}
    /\ stream.n < MaxNotifications
    /\ \E text \in AdapterTexts, send_ok \in BOOLEAN :
       \* the gates of process_notification, then the adapter's handler on the
       \* notification that passed them
       \E calls \in {process_notification(text, "").calls} :
       \E ref \in {response_ref(calls)} :
       \E out \in {IF calls = <<>> THEN Handled("", <<>>)
                   ELSE IF app = "slack"
                   THEN slack_handle_notification(calls[1], destination, send_ok)
                   ELSE teams_handle_notification(calls[1], destination, send_ok)} :
       \E r \in {process_notification(text, out.exc)} :
            \* the backend announces the fulfilment of a request only once the
            \* request exists
            /\ ref \in OwnRefs => CreatedAs(ref) # {}
            /\ stream' = [n |-> stream.n + 1,
                          ref |-> ref,
                          send_ok |-> send_ok,
                          exc |-> r.exc,
                          created |-> CreatedAs(ref) # {},
                          dest_recorded |-> \E k \in CreatedAs(ref) : requests[k] \in recorded,
                          consumed |-> \E j \in DOMAIN posts : posts[j].ref = ref,
                          sent |-> out.sent]
            /\ posts' = posts \o [j \in DOMAIN out.sent |->
                                    [channel |-> out.sent[j].channel,
                                     ref |-> out.sent[j].ref]]
    /\ AdapterFrame
    /\ UNCHANGED <<destination, messages, requests, recorded>>

NextAdapter ==
    \/ MessageArrives
    \/ \E m \in DOMAIN messages : SlackUsersInfo(m)
    \/ \E m \in DOMAIN messages : SlackCreateRequest(m)
    \/ \E m \in DOMAIN messages : SlackSetChannel(m)
    \/ \E m \in DOMAIN messages : TeamsSetReference(m)
    \/ \E m \in DOMAIN messages : TeamsCreateRequest(m)
    \/ DeliverNotification

SpecAdapter == InitAdapter /\ [][NextAdapter]_vars

\* the channel of the message that created the request with reference ref
OriginChannel(ref) == JStr(messages[requests[CHOOSE k \in CreatedAs(ref) : TRUE]].channel)

\* C1: every response is delivered to the channel that originated the
\* request with the same reference, whatever the interleaving of inbound
\* messages and request-fulfilled notifications: a notification for a
\* request this adapter created (whose send succeeds) produces exactly one
\* chat message, in the channel of the message that created the request.
C1_DeliveredToOriginator ==
    (stream.created /\ ~stream.consumed /\ stream.send_ok) =>
        /\ Len(stream.sent) = 1
        /\ \A j \in DOMAIN stream.sent : stream.sent[j].channel = OriginChannel(stream.ref)

\* C2: the destination of a request is recorded before the backend
\* request-creation call returns: whenever the backend holds a request, the
\* handler already stores the destination of the message that created it, so
\* no request-fulfilled notification is handled with its destination
\* unrecorded.
C2_RecordedBeforeCreateReturns ==
    /\ \A k \in DOMAIN requests : requests[k] \in recorded
    /\ stream.created => stream.dest_recorded

\* C3: the destination recorded for a reference is consumed at most once:
\* the first request-fulfilled notification for it delivers the response,
\* any further one for the same reference delivers nothing.
C3_ConsumedAtMostOnce ==
    \A i, j \in DOMAIN posts :
        (posts[i].ref = posts[j].ref /\ CreatedAs(posts[i].ref) # {}) => i = j

\* C4: a request-fulfilled notification whose reference has no destination
\* registered (never created by this adapter, or already consumed) is
\* dropped: it sends no chat message to any channel.
C4_UnregisteredDropped ==
    (stream.ref # None /\ (~stream.created \/ stream.consumed)) => stream.sent = <<>>

----------------------------------------------------------------------------
(* SpecLifecycle: SlackApp / TeamsApp run start_sse on the thread SSEThread  *)
(* while the main thread waits for the shutdown and then runs cleanup().     *)
(* The callback of consume_sse is followed from its call to its return.      *)

\* the lines of the streams of this specification
LifecycleLines == {BlankLine, TickLine, DataA1Line, DataFulfilledLine}

\* the number of lines one stream delivers in this specification
MaxLifecycleLines == 4

\* a callback(...) call: its argument, the blank line it was made at, and
\* whether it has returned
CallbackCall(data, event, at, done) ==
    [data |-> data, event |-> event, at |-> at, done |-> done]

\* the callback calls that have not returned
InProgress == {i \in DOMAIN dispatched : ~dispatched[i].done}

\* the loop goes on while a callback call is still running
next_line_while_handling(in_progress) == TRUE

\* "callback(current_event.data)" is an ordinary call inside the loop body:
\* the next iteration of "for line in response.iter_lines()" starts when no
\* callback call is running
next_line_allowed(in_progress) == in_progress = {}

\* the SSE thread, a daemon thread, runs until the process exits: neither
\* consume_sse nor start_sse looks at shutdown_event while the stream is read
sse_thread_runs(pc) == pc # "exited"

InitLifecycle ==
    /\ results = NoCall
    /\ sse_pc = "start"
    /\ sse_exc = NoExc
    /\ current_event = ServerSentEvent
    /\ lines_read = <<>>
    /\ dispatched = <<>>
    /\ handled = <<>>
    /\ http = <<>>
    /\ InitRunning
    /\ app \in {"slack", "teams"}
    /\ destination = None
    /\ messages = <<>>
    /\ requests = <<>>
    /\ recorded = {}
    /\ stream = NoDelivery
    /\ posts = <<>>

LifecycleFrame ==
    UNCHANGED <<results, app, destination, messages, requests, recorded, stream, posts>>

\* start_sse: consume_sse gets the token and opens the stream
SseConnect ==
    /\ sse_thread_runs(main_pc)
    /\ sse_pc = "start"
    /\ sse_pc' = "reading"
    /\ http' = http \o connect_calls("")
    /\ current_event' = ServerSentEvent
    /\ LifecycleFrame
    /\ UNCHANGED <<sse_exc, lines_read, dispatched, handled, main_pc, shutdown_event>>

\* consume_sse reads one line; on a blank line that ends an event to
\* dispatch it calls the callback
SseReadLine ==
    /\ sse_thread_runs(main_pc)
    /\ sse_pc = "reading"
    /\ next_line_allowed(InProgress)
    /\ Len(lines_read) < MaxLifecycleLines
    /\ \E line \in LifecycleLines :
        /\ lines_read' = Append(lines_read, line)
        /\ IF line # BlankLine
           THEN /\ current_event' = with_field(current_event, parse_sse(line))
                /\ UNCHANGED dispatched
           ELSE IF should_dispatch(current_event)
           THEN /\ dispatched' = Append(dispatched,
                        CallbackCall(current_event.data[1], current_event.event,
                                     Len(lines_read) + 1, FALSE))
                /\ UNCHANGED current_event
           ELSE /\ current_event' = after_blank(current_event)
                /\ UNCHANGED dispatched
    /\ LifecycleFrame
    /\ UNCHANGED <<sse_pc, sse_exc, handled, http, main_pc, shutdown_event>>

\* process_notification, called as the callback, returns: the handler has
\* been called with the notification if the payload passed the gates
SseCallbackReturns ==
    /\ sse_thread_runs(main_pc)
    /\ sse_pc = "reading"
    /\ \E i \in InProgress, h \in StreamHandlerOutcomes :
       \E r \in {process_notification(dispatched[i].data, h)} :
        /\ dispatched' = [dispatched EXCEPT ![i].done = TRUE]
        /\ handled' = handled \o r.calls
        /\ current_event' = after_blank(current_event)
    /\ LifecycleFrame
    /\ UNCHANGED <<sse_pc, sse_exc, lines_read, http, main_pc, shutdown_event>>

\* the stream ends: consume_sse and start_sse return
SseReturns ==
    /\ sse_thread_runs(main_pc)
    /\ sse_pc = "reading"
    /\ InProgress = {}
    /\ sse_pc' = "returned"
    /\ LifecycleFrame
    /\ UNCHANGED <<sse_exc, current_event, lines_read, dispatched, handled, http,
                   main_pc, shutdown_event>>

\* the connection breaks: consume_sse raises, start_sse's except clause sets
\* shutdown_event if it is not set
SseRaises ==
    /\ sse_thread_runs(main_pc)
    /\ sse_pc = "reading"
    /\ InProgress = {}
    /\ sse_pc' = on_exception("iter_lines")
    /\ sse_exc' = [exc |-> "RequestException", at |-> "iter_lines"]
    /\ shutdown_event' = TRUE
    /\ LifecycleFrame
    /\ UNCHANGED <<current_event, lines_read, dispatched, handled, http, main_pc>>

\* SIGINT or SIGTERM reaches signal_handler, or (SlackApp.start)
\* shutdown_event.wait() returns: cleanup() is called
ShutdownSignalled ==
    /\ main_pc = "running"
    /\ main_pc' = "cleanup"
    /\ LifecycleFrame
    /\ UNCHANGED <<sse_pc, sse_exc, current_event, lines_read, dispatched, handled, http,
                   shutdown_event>>

\* cleanup(): shutdown_event.set(), then sse_thread.join(timeout=2), which
\* returns whether or not the thread has finished
Cleanup ==
    /\ main_pc = "cleanup"
    /\ shutdown_event' = TRUE
    /\ main_pc' = "cleaned"
    /\ LifecycleFrame
    /\ UNCHANGED <<sse_pc, sse_exc, current_event, lines_read, dispatched, handled, http>>

\* sys.exit(0) in signal_handler, or start() returns: the process ends and
\* its daemon threads with it
ProcessExits ==
    /\ main_pc = "cleaned"
    /\ main_pc' = "exited"
    /\ LifecycleFrame
    /\ UNCHANGED <<sse_pc, sse_exc, current_event, lines_read, dispatched, handled, http,
                   shutdown_event>>

NextLifecycle ==
    \/ SseConnect
    \/ SseReadLine
    \/ SseCallbackReturns
    \/ SseReturns
    \/ SseRaises
    \/ ShutdownSignalled
    \/ Cleanup
    \/ ProcessExits

SpecLifecycle == InitLifecycle /\ [][NextLifecycle]_vars

RECURSIVE NotificationsOf(_)
\* the notifications that the callback calls which have returned passed to
\* the handler, in the order of the calls
NotificationsOf(calls) ==
    IF calls = <<>> THEN <<>>
    ELSE (IF Head(calls).done THEN process_notification(Head(calls).data, "").calls
          ELSE <<>>) \o NotificationsOf(Tail(calls))

\* C11: payloads reach the handler in stream arrival order and one at a
\* time: at most one callback call is running, it is the last one made and
\* no line has been read since it was made; the calls were made at
\* increasing lines, each with the data of the event its blank line ended,
\* and the handler got the notifications in that order.
C11_OneAtATimeInOrder ==
    /\ Cardinality(InProgress) <= 1
    /\ \A i \in InProgress :
          i = Len(dispatched) /\ dispatched[i].at = Len(lines_read)
    /\ \A i, j \in DOMAIN dispatched :
          i < j => dispatched[i].at < dispatched[j].at
    /\ \A i \in DOMAIN dispatched :
          /\ lines_read[dispatched[i].at] = BlankLine
          /\ Some(dispatched[i].data) =
                LastValue(Segment(lines_read, dispatched[i].at), "data")
    /\ handled = NotificationsOf(dispatched)

\* two payloads arrived, the first has been handled and the callback call
\* for the second is running
C11_Witness ==
    /\ lines_read = <<DataFulfilledLine, BlankLine, DataA1Line, BlankLine>>
    /\ Len(dispatched) = 2
    /\ InProgress = {2}
    /\ Len(handled) = 1

\* C14: once shutdown has been signalled and cleanup() has run, no further
\* payload is passed to the callback or to the notification handler.
C14_NoDeliveryAfterTeardown ==
    [][main_pc = "cleaned" => UNCHANGED <<dispatched, handled>>]_vars

----------------------------------------------------------------------------
(* SpecDecode: ApiValue.from_dict applied to any raw JSON value *)

\* the dict with the given (key, value) pairs
Dict(pairs) ==
    JObj([k \in {p[1] : p \in pairs} |-> (CHOOSE p \in pairs : p[1] = k)[2]])

\* a tagged value with a payload and no metadata
Tagged(tag, value) == Dict({<<"nplType", JStr(tag)>>, <<"value", value>>})

\* the nplType tags of the inputs; 5 is a tag that is no string
RawTags ==
    { JStr("text"), JStr("number"), JStr("struct"), JStr("dateTime"),
      JStr("protocolReference"), JStr("custom"), JNum("5") }

\* struct payloads: fields that are tagged values, raw values, a nested
\* struct, a dict without a tag, and a tagged value that does not decode
RawStructs ==
    { EmptyObj,
      Dict({<<"title", Tagged("text", JStr("T"))>>, <<"count", JNum("5")>>}),
      Dict({<<"n", Tagged("number", JNum("3.5"))>>, <<"raw", Dict({<<"value", JStr("x")>>})>>,
            <<"none", None>>}),
      Dict({<<"inner", Tagged("struct", Dict({<<"when", Tagged("dateTime", JStr("2024-01-02"))>>,
                                               <<"list", JArr(<<JNum("5")>>)>>}))>>}),
      Dict({<<"bad", Tagged("number", JStr("abc"))>>, <<"title", Tagged("text", JStr("T"))>>}),
      Dict({<<"inner", Tagged("struct", Dict({<<"bad", Tagged("dateTime", JStr("not a date"))>>}))>>}) }

\* the payloads under the key "value"
RawPayloads ==
    { None, JStr(""), JStr("abc"), JStr("5"), JStr(" 7 "), JStr("nan"),
      JStr("2024-01-02T03:04:05Z"), JStr("2024-01-02"), JStr("not a date"),
      JNum("0"), JNum("5"), JNum("3.5"), JNum("9007199254740993"),
      JBool(TRUE), JArr(<<>>), JArr(<<JNum("5")>>) } \cup RawStructs

\* the optional entries of a raw value: the payload and the metadata
RawOptions ==
    { {<<"value", v>>} : v \in RawPayloads } \cup {{}}

RawMeta ==
    { {}, {<<"typeName", JStr("/app/T")>>}, {<<"prototypeId", JStr("P")>>},
      {<<"typeName", JStr("/app/T")>>, <<"prototypeId", JStr("P")>>} }

\* the raw JSON values handed to ApiValue.from_dict: tagged dicts, dicts
\* without the tag, and values that are no dict
RawValues ==
    { Dict({<<"nplType", tag>>} \cup o \cup m) : tag \in RawTags, o \in RawOptions, m \in RawMeta }
    \cup { Dict(o \cup m) : o \in RawOptions, m \in RawMeta }
    \cup { None, JStr("text"), JStr(""), JNum("5"), JBool(FALSE), JArr(<<>>),
           JArr(<<Tagged("text", JStr("T"))>>) }

\* no decode call made yet
NoDecode == [raw |-> None, r |-> Raise(""), n |-> 0]

InitDecode ==
    /\ results = NoDecode
    /\ InitIdle
    /\ InitNoAdapter

\* ApiValue.from_dict(raw)
Decode ==
    /\ results.n = 0
    /\ \E raw \in RawValues :
          results' = [raw |-> raw, r |-> ApiValue_from_dict(raw), n |-> 1]
    /\ UNCHANGED <<sse_pc, sse_exc, current_event, lines_read, dispatched, handled,
                   app, destination, messages, requests, recorded, stream, posts,
                   http, main_pc, shutdown_event>>

NextDecode == Decode

SpecDecode == InitDecode /\ [][NextDecode]_vars

\* the raw value is a dict that carries the key nplType
IsTaggedDict(raw) == IsDict(raw) /\ HasKey(raw, "nplType")

\* C16: decoding fails with an error whenever the raw input is no JSON
\* object or is an object without the nplType tag: no ApiValue is produced.
C16_UntaggedInputFails ==
    (results.n = 1 /\ ~IsTaggedDict(results.raw)) =>
        /\ results.r.exc = "ValueError"
        /\ results.r.v = None

\* a dict with a value and metadata but no nplType was rejected
C16_Witness ==
    /\ results.n = 1
    /\ results.raw = Dict({<<"value", JStr("abc")>>, <<"typeName", JStr("/app/T")>>})
    /\ results.r.exc = "ValueError"

\* C17: every successfully decoded value tagged number holds a float:
\* decoding a number-tagged value whose payload is not numeric, an absent
\* or null payload included, fails.
C17_NumberHoldsFloat ==
    (results.n = 1 /\ results.r.exc = "" /\ results.r.v.nplType = JStr("number")) =>
        results.r.v.value.t = "float"

\* C18: every successfully decoded value tagged dateTime holds a valid
\* date-time string, the one of the input: decoding fails when the payload
\* is no valid date-time string or no string at all.
C18_TimestampHoldsValidString ==
    (results.n = 1 /\ results.r.exc = "" /\ results.r.v.nplType = JStr("dateTime")) =>
        /\ results.r.v.value.t = "str"
        /\ fromisoformat_ok(results.r.v.value.s)
        /\ results.r.v.value = Get(results.raw, "value")

RECURSIVE FieldsDecoded(_, _)
\* decoded holds the fields of a struct payload as from_dict must leave
\* them: the same field names; a field that is a dict with the tag has become
\* an ApiValue of that tag (its own fields likewise when it is a struct with
\* a mapping payload), every other field is the raw value itself
FieldsDecoded(fields, decoded) ==
    /\ decoded.t = "obj"
    /\ DOMAIN decoded.o = DOMAIN fields
    /\ \A key \in DOMAIN fields :
          LET raw == fields[key]
              dec == decoded.o[key]
          IN  IF IsTaggedDict(raw)
              THEN /\ dec.t = "ApiValue"
                   /\ dec.nplType = raw.o["nplType"]
                   /\ (raw.o["nplType"] = JStr("struct") /\ IsDict(Get(raw, "value")))
                         => FieldsDecoded(Get(raw, "value").o, dec.value)
                   /\ raw.o["nplType"] \in {JStr("text"), JStr("dateTime")}
                         => dec.value = Get(raw, "value")
              ELSE dec = raw

\* C19: when a struct-tagged value with a mapping payload is decoded, each
\* field that is an object carrying the tag is decoded recursively into a
\* typed value, every other field is kept as the unchanged raw value, and
\* the set of field names is preserved.
C19_StructFieldsDecoded ==
    (/\ results.n = 1
     /\ results.r.exc = ""
     /\ results.r.v.nplType = JStr("struct")
     /\ IsDict(Get(results.raw, "value")))
        => FieldsDecoded(Get(results.raw, "value").o, results.r.v.value)

\* a struct with a nested struct was decoded: the inner struct holds a typed
\* dateTime field and a raw list
C19_Witness ==
    /\ results.n = 1
    /\ results.raw =
          Tagged("struct",
                 Dict({<<"inner", Tagged("struct",
                                         Dict({<<"when", Tagged("dateTime", JStr("2024-01-02"))>>,
                                               <<"list", JArr(<<JNum("5")>>)>>}))>>}))
    /\ results.r.exc = ""
    /\ results.r.v.value.o["inner"].value.o["when"].t = "ApiValue"
    /\ results.r.v.value.o["inner"].value.o["list"] = JArr(<<JNum("5")>>)

\* the exact decimal value of a JSON number literal and of the repr of a float
ExactValue ==
    [s \in {"0", "0.0", "5", "5.0", "3.5", "9007199254740993", "9007199254740992.0"} |->
        CASE s \in {"0", "0.0"} -> "0"
          [] s \in {"5", "5.0"} -> "5"
          [] s = "3.5" -> "3.5"
          [] s = "9007199254740993" -> "9007199254740993"
          [] s = "9007199254740992.0" -> "9007199254740992"]

RECURSIVE IsValidTagged(_)
\* raw is a valid tagged value of one of the six kinds: text and reference
\* with a string, number with a JSON number, dateTime with a valid date-time
\* string, struct with a mapping whose tagged fields are valid, and any other
\* tag (opaque) with any payload
IsValidTagged(raw) ==
    /\ IsTaggedDict(raw)
    /\ raw.o["nplType"].t = "str"
    /\ LET tag == raw.o["nplType"].s
           value == Get(raw, "value")
       IN  CASE tag \in {"text", "protocolReference"} -> value.t = "str"
             [] tag = "number" -> value.t = "num"
             [] tag = "dateTime" -> value.t = "str" /\ fromisoformat_ok(value.s)
             [] tag = "struct" ->
                    /\ IsDict(value)
                    /\ \A key \in DOMAIN value.o :
                          IsTaggedDict(value.o[key]) => IsValidTagged(value.o[key])
             [] OTHER -> TRUE

RECURSIVE Preserved(_, _)
\* the decoded value dec has the kind, the value content and the metadata of
\* the raw tagged value
Preserved(raw, dec) ==
    /\ dec.t = "ApiValue"
    /\ dec.nplType = raw.o["nplType"]
    /\ dec.typeName = Get(raw, "typeName")
    /\ dec.prototypeId = Get(raw, "prototypeId")
    /\ LET tag == raw.o["nplType"].s
           value == Get(raw, "value")
       IN  CASE tag = "number" ->
                    /\ dec.value.t = "float"
                    /\ ExactValue[dec.value.r] = ExactValue[value.n]
             [] tag = "struct" ->
                    /\ dec.value.t = "obj"
                    /\ DOMAIN dec.value.o = DOMAIN value.o
                    /\ \A key \in DOMAIN value.o :
                          IF IsTaggedDict(value.o[key])
                          THEN Preserved(value.o[key], dec.value.o[key])
                          ELSE dec.value.o[key] = value.o[key]
             [] OTHER -> dec.value = value

\* C20: round trip: decoding the JSON encoding of a valid tagged value of any
\* of the six kinds gives a value of the same kind with the same value
\* content, and typeName and prototypeId are passed through unchanged.
C20_RoundTrip ==
    (results.n = 1 /\ IsValidTagged(results.raw)) =>
        /\ results.r.exc = ""
        /\ Preserved(results.raw, results.r.v)

\* the same for values that hold no integer beyond 2^53
C20_RoundTripOfDoubles ==
    (/\ results.n = 1
     /\ IsValidTagged(results.raw)
     /\ Get(results.raw, "value") # JNum("9007199254740993")) =>
        /\ results.r.exc = ""
        /\ Preserved(results.raw, results.r.v)

\* an opaque value with a list payload and a typeName is decoded with its
\* content and its metadata
C20_RoundTripWitness ==
    /\ results.n = 1
    /\ IsValidTagged(results.raw)
    /\ results.raw.o["nplType"] = JStr("custom")
    /\ Get(results.raw, "value") = JArr(<<JNum("5")>>)
    /\ Get(results.raw, "typeName") = JStr("/app/T")
    /\ results.r.exc = ""
    /\ Preserved(results.raw, results.r.v)

----------------------------------------------------------------------------
(* SpecExtract: a notification object is decoded with                       *)
(* ApiNotification.from_dict and the typed accessors, the two name          *)
(* predicates, get_request and get_response are called on the result.       *)

\* the values of the member "name": qualified and unqualified event names,
\* names that only contain a suffix, and a value that is no string
ExtractNames ==
    { JStr("x.y.requestSubmitted"), JStr("requestSubmitted"),
      JStr("x.y.requestFulfilled"), JStr("x.requestFulfilled"),
      JStr("x.y.requestSubmittedLater"), JStr("requestFulfilled.x.y"),
      JStr("x.y.other"), JStr(""), JNum("5") }

\* raw values at argument position 0
ExtractFirstArgs ==
    { RefR1, Tagged("protocolReference", JStr("")), Tagged("protocolReference", JNum("5")),
      Tagged("text", JStr("R1")), Dict({<<"nplType", JStr("protocolReference")>>}) }

\* a ticket struct with the given title and contents fields
Ticket(title, contents) ==
    Tagged("struct", Dict({<<"title", title>>, <<"contents", contents>>}))

\* raw values at argument position 1
ExtractSecondArgs ==
    { TextArg, Tagged("text", JStr("")), Tagged("text", JNum("5")),
      Tagged("number", JNum("5")), Dict({<<"nplType", JStr("number")>>}),
      TicketArg,
      Ticket(Tagged("number", JNum("5")), Tagged("text", JStr("C"))),
      Ticket(Tagged("text", JStr("T")), Tagged("struct", EmptyObj)),
      Ticket(Tagged("text", JStr("")), Tagged("text", JStr("C"))),
      Ticket(JStr("T"), Tagged("text", JStr("C"))),
      Ticket(Tagged("text", JStr("T")), JStr("C")),
      Tagged("struct", Dict({<<"title", Tagged("text", JStr("T"))>>})),
      Tagged("struct", EmptyObj), Tagged("struct", None),
      Tagged("struct", JStr("abc")), Tagged("struct", JArr(<<JNum("5")>>)),
      BadNumberArg }

\* the values of the member "arguments"
ExtractArguments ==
    { <<>> } \cup { <<a>> : a \in ExtractFirstArgs }
    \cup { <<a, b>> : a \in ExtractFirstArgs, b \in ExtractSecondArgs }
    \cup { <<RefR1, b, TextArg>> : b \in {TextArg, TicketArg} }

\* the notification objects handed to ApiNotification.from_dict
ExtractNotifications ==
    { Dict({<<"name", name>>, <<"arguments", JArr(args)>>}) :
        name \in ExtractNames, args \in ExtractArguments }

\* the four typed accessors called on one decoded value
Accessors(v) ==
    [ text |-> Ok(get_text(v)), number |-> get_number(v),
      struct |-> Ok(get_struct(v)), reference |-> Ok(get_reference(v)) ]

\* the calls made on a decoded notification
Views(n) ==
    [ submission |-> is_request_submission(n),
      fulfilled |-> is_request_fulfilled(n),
      request |-> get_request(n),
      response |-> get_response(n),
      accessors |-> [i \in DOMAIN n.arguments |-> Accessors(n.arguments[i])] ]

\* nothing was called: the notification did not decode
NoViews ==
    [ submission |-> Raise(""), fulfilled |-> Raise(""), request |-> Raise(""),
      response |-> Raise(""), accessors |-> <<>> ]

NoExtract == [raw |-> None, decoded |-> Raise(""), views |-> NoViews, n |-> 0]

InitExtract ==
    /\ results = NoExtract
    /\ InitIdle
    /\ InitNoAdapter

\* ApiNotification.from_dict(raw), then every accessor on the result
Extract ==
    /\ results.n = 0
    /\ \E raw \in ExtractNotifications :
          \E d \in {ApiNotification_from_dict(raw)} :
             results' = [raw |-> raw, decoded |-> d, n |-> 1,
                         views |-> IF d.exc = "" THEN Views(d.v) ELSE NoViews]
    /\ UNCHANGED <<sse_pc, sse_exc, current_event, lines_read, dispatched, handled,
                   app, destination, messages, requests, recorded, stream, posts,
                   http, main_pc, shutdown_event>>

NextExtract == Extract

SpecExtract == InitExtract /\ [][NextExtract]_vars

\* the decoded arguments the accessors were called on
Decoded == results.decoded.v.arguments

\* the kind each accessor asks for
AccessorKind ==
    [ text |-> JStr("text"), number |-> JStr("number"),
      struct |-> JStr("struct"), reference |-> JStr("protocolReference") ]

\* no accessor raises, and an accessor called on a value of another kind
\* returns None
AccessorsAbsentOnMismatch ==
    \A i \in DOMAIN results.views.accessors :
        \A a \in DOMAIN AccessorKind :
            /\ results.views.accessors[i][a].exc = ""
            /\ Decoded[i].nplType # AccessorKind[a] =>
                    results.views.accessors[i][a].v = None

\* C21: the typed accessors never raise; on a decoded value of another kind
\* they return absent, and on a value of the matching kind get_struct,
\* get_reference and get_number return its payload and get_text returns
\* str(payload), which is the payload itself when it is a string (an absent
\* payload is returned as absent).
C21_AccessorsTotal ==
    results.n = 1 =>
        /\ AccessorsAbsentOnMismatch
        /\ \A i \in DOMAIN results.views.accessors :
              \A a \in DOMAIN AccessorKind :
                  Decoded[i].nplType = AccessorKind[a] =>
                      results.views.accessors[i][a].v =
                          IF a = "text" /\ Decoded[i].value.t \notin {"str", "null"}
                          THEN JStr(py_str(Decoded[i].value))
                          ELSE Decoded[i].value

\* a reference and a text whose payload is the number 5: get_text gives "5"
C21_Witness ==
    /\ results.n = 1
    /\ results.raw.o["arguments"] = JArr(<<RefR1, Tagged("text", JNum("5"))>>)
    /\ results.views.accessors[1].reference = Ok(JStr("R1"))
    /\ results.views.accessors[1].text = Ok(None)
    /\ results.views.accessors[2].text = Ok(JStr("5"))
    /\ results.views.accessors[2].number = Ok(None)

\* C21 as stated: on a value of the matching kind every accessor returns the
\* payload of the value.
C21_AccessorsReturnPayload ==
    results.n = 1 =>
        /\ AccessorsAbsentOnMismatch
        /\ \A i \in DOMAIN results.views.accessors :
              \A a \in DOMAIN AccessorKind :
                  Decoded[i].nplType = AccessorKind[a] =>
                      results.views.accessors[i][a].v = Decoded[i].value

\* the name of the decoded notification is a string that ends with suffix
NameEndsWith(suffix) ==
    /\ results.decoded.v.name.t = "str"
    /\ \E p \in NamePrefixes : results.decoded.v.name.s = p \o suffix

\* at least two arguments, of the kinds first and second, and the results
\* of the accessors first_accessor and second_accessor are not empty
ArgumentShape(first, first_accessor, second, second_accessor) ==
    /\ Len(Decoded) >= 2
    /\ Decoded[1].nplType = JStr(first)
    /\ Decoded[2].nplType = JStr(second)
    /\ Truthy(results.views.accessors[1][first_accessor].v)
    /\ Truthy(results.views.accessors[2][second_accessor].v)

IsTextField(struct, field) ==
    /\ struct.t = "obj"
    /\ field \in DOMAIN struct.o
    /\ struct.o[field].t = "ApiValue"
    /\ struct.o[field].nplType = JStr("text")

\* C23: get_response returns a response only when the name ends with
\* "requestFulfilled", there are at least 2 arguments, argument 0 is a
\* reference and argument 1 is a struct whose fields title and contents are
\* both text values; when title or contents is present but is no text value
\* it returns absent.
C23_GetResponse ==
    (/\ results.n = 1
     /\ results.decoded.exc = ""
     /\ results.views.response.exc = ""
     /\ results.views.response.v # None) =>
        /\ NameEndsWith("requestFulfilled")
        /\ Len(Decoded) >= 2
        /\ Decoded[1].nplType = JStr("protocolReference")
        /\ Decoded[2].nplType = JStr("struct")
        /\ IsTextField(Decoded[2].value, "title")
        /\ IsTextField(Decoded[2].value, "contents")

\* the response of the well-formed notification:
\* [reference("R1"), struct{title: text("T"), contents: text("C")}]
C23_WellFormedResponse ==
    (/\ results.n = 1
     /\ results.raw.o["name"] = JStr("x.y.requestFulfilled")
     /\ results.raw.o["arguments"] = JArr(<<RefR1, TicketArg>>)) =>
        results.views.response =
            Ok([t |-> "NotificationContent", ref |-> JStr("R1"),
                content |-> [t |-> "ResponseContent", title |-> JStr("T"),
                             contents |-> JStr("C")]])

\* C24: get_request and get_response never raise on a decoded notification:
\* each returns a view or absent, also when the struct argument has untagged
\* raw fields for title or contents or a payload that is no mapping.
C24_ExtractNeverRaises ==
    (results.n = 1 /\ results.decoded.exc = "" /\ results.decoded.v.name.t = "str") =>
        /\ results.views.request.exc = ""
        /\ results.views.response.exc = ""

\* get_request never raises on a notification whose name is a string
C24_GetRequestNeverRaises ==
    (results.n = 1 /\ results.decoded.exc = "" /\ results.decoded.v.name.t = "str") =>
        results.views.request.exc = ""

\* the names of the model that end with "requestSubmitted" and with
\* "requestFulfilled"
SubmittedNames == {JStr("x.y.requestSubmitted"), JStr("requestSubmitted")}
FulfilledNames == {JStr("x.y.requestFulfilled"), JStr("x.requestFulfilled")}

\* C25: is_request_submission is true iff the name ends with
\* "requestSubmitted" and is_request_fulfilled is true iff it ends with
\* "requestFulfilled"; both give the same result on a notification of the
\* same name without arguments: they depend on the name only.
C25_SuffixPredicates ==
    (results.n = 1 /\ results.decoded.exc = "") =>
        LET name == results.decoded.v.name
            bare == [name |-> name, arguments |-> <<>>]
        IN  /\ results.views.submission = Ok(JBool(TRUE)) <=> name \in SubmittedNames
            /\ results.views.fulfilled = Ok(JBool(TRUE)) <=> name \in FulfilledNames
            /\ name.t = "str" =>
                  /\ results.views.submission \in {Ok(JBool(TRUE)), Ok(JBool(FALSE))}
                  /\ results.views.fulfilled \in {Ok(JBool(TRUE)), Ok(JBool(FALSE))}
            /\ results.views.submission = is_request_submission(bare)
            /\ results.views.fulfilled = is_request_fulfilled(bare)

\* a qualified request-submitted name on a notification whose arguments are
\* those of a response
C25_Witness ==
    /\ results.n = 1
    /\ results.raw.o["name"] = JStr("x.y.requestSubmitted")
    /\ results.raw.o["arguments"] = JArr(<<RefR1, TicketArg>>)
    /\ results.views.submission = Ok(JBool(TRUE))
    /\ results.views.fulfilled = Ok(JBool(FALSE))

----------------------------------------------------------------------------
(* agent_worker/handlers/notification_handler.py *)

\* What a call of the agent's handler did: the exception it raised ("" when
\* it returned), the exception that one was raised from, the message of the
\* error, and its calls to the LLM service and to the backend, in order.
AgentHandled(exc, cause, error, calls) ==
    [exc |-> exc, cause |-> cause, error |-> error, calls |-> calls]

\* self.llm_service.parse_requirements_to_ticket(text)
ParseCall(text) == [call |-> "parse_requirements_to_ticket", text |-> text]

\* the call is made without the reference of the request
FulfillCallWithoutRef(ref, response) ==
    [call |-> "fulfill_request", ref |-> None, response |-> response]

\* self.api_client.fulfill_request(ref, response)
FulfillCall(ref, response) == [call |-> "fulfill_request", ref |-> ref, response |-> response]

\* parse_requirements_to_ticket returns a ticket or raises LLMServiceError,
\* into which it wraps every exception
LLMOutcomes == {"", "LLMServiceError"}

\* fulfill_request returns or raises ApiError, into which it wraps every
\* exception
ApiOutcomes == {"", "ApiError"}

\* str(e) of the exception a collaborator raised
ErrorText(e) ==
    IF e = "LLMServiceError" THEN "Failed to parse requirements: timeout"
    ELSE "Failed to fulfill request: 503"

\* the response built from the ticket with title "T" and contents "C" (the
\* code fence around the contents is left out)
formatted_response == "*Title:*\nT\n\n*Implementation Details:*\nC"

\* a failure of the error report is raised to the caller
send_error_response_raising(request_ref, error_message, outcome) ==
    [exc |-> outcome,
     log |-> IF outcome = "" THEN "Sent error message to user" ELSE "",
     calls |-> <<FulfillCall(request_ref, "*Error:* " \o error_message)>>]

\* AgentNotificationHandler._send_error_response; outcome is that of its
\* fulfill_request call
send_error_response(request_ref, error_message, outcome) ==
    [exc |-> "",
     log |-> IF outcome = "" THEN "Sent error message to user"
             ELSE "Failed to send error message",
     calls |-> <<FulfillCall(request_ref, "*Error:* " \o error_message)>>]

\* the clause "except Exception" of _handle_request_submission (lines
\* 105-109): the error is reported and RequestProcessingError is raised
\* (or what the report raises)
except_unexpected(ref, calls, report) ==
    LET e == send_error_response(ref, "An unexpected error occurred", report)
    IN  AgentHandled(IF e.exc # "" THEN e.exc ELSE "RequestProcessingError",
                     "", "Unexpected error while processing request", calls \o e.calls)

\* AgentNotificationHandler._handle_request_submission. llm and fulfil are
\* the outcomes of parse_requirements_to_ticket and of the fulfill_request
\* call for the ticket, report and report2 those of the fulfill_request calls
\* of the first and the second _send_error_response.
handle_request_submission(n, llm, fulfil, report, report2) ==
    LET request == get_request(n)
    IN  IF request.exc # "" THEN AgentHandled(request.exc, "", "", <<>>)
        ELSE IF ~Truthy(request.v)
        THEN AgentHandled("RequestProcessingError", "",
                          "Invalid request notification format", <<>>)
        ELSE
            LET ref == request.v.ref
                parse == <<ParseCall(request.v.content.text)>>
                ticket == parse \o <<FulfillCall(ref, formatted_response)>>
            IN  IF llm # ""
                THEN \* except LLMServiceError (lines 99-103)
                     LET e == send_error_response(ref, ErrorText(llm), report)
                     IN  AgentHandled(IF e.exc # "" THEN e.exc ELSE "RequestProcessingError",
                                      "", "LLM service error while processing request",
                                      parse \o e.calls)
                ELSE IF fulfil = ""
                THEN AgentHandled("", "", "", ticket)
                ELSE \* except ApiError (lines 93-97): the RequestProcessingError
                     \* raised there is raised inside the outer try block
                     \* and is caught by its clause "except Exception"
                     LET e == send_error_response(ref, ErrorText(fulfil), report)
                     IN  except_unexpected(ref, ticket \o e.calls, report2)

\* AgentNotificationHandler.handle_notification
agent_handle_notification(n, llm, fulfil, report, report2) ==
    LET submission == is_request_submission(n)
    IN  IF submission.exc # ""
        THEN AgentHandled("NotificationError", submission.exc, "", <<>>)
        ELSE IF ~submission.v.b
        THEN AgentHandled("", "", "", <<>>)
        ELSE
            LET r == handle_request_submission(n, llm, fulfil, report, report2)
            IN  IF r.exc = "" THEN r
                ELSE AgentHandled("NotificationError", r.exc, r.error, r.calls)

----------------------------------------------------------------------------
(* SpecHandlers: handle_notification of the agent worker, of the Slack      *)
(* adapter and of the Teams adapter, called on a decoded notification.      *)

\* the chat message an adapter sent, as a call
SendCall(m) == [call |-> "send", channel |-> m.channel, text |-> m.text, ref |-> m.ref]

NoOutcomes == [llm |-> "", fulfil |-> "", report |-> "", report2 |-> "", send_ok |-> FALSE]

NoHandling ==
    [raw |-> None, notification |-> None, outcomes |-> NoOutcomes,
     exc |-> "", cause |-> "", error |-> "", calls |-> <<>>, n |-> 0]

InitHandlers ==
    /\ results = NoHandling
    /\ InitIdle
    /\ app \in {"agent", "slack", "teams"}
    /\ destination \in
          CASE app = "slack" -> {None} \cup {JStr(c) : c \in Channels}
            [] app = "teams" -> {None} \cup {ConversationReference(c) : c \in Channels}
            [] OTHER -> {None}
    /\ messages = <<>>
    /\ requests = <<>>
    /\ recorded = {}
    /\ stream = NoDelivery
    /\ posts = <<>>

HandlersFrame ==
    UNCHANGED <<sse_pc, sse_exc, current_event, lines_read, dispatched, handled,
                app, destination, messages, requests, recorded, stream, posts,
                http, main_pc, shutdown_event>>

\* AgentNotificationHandler.handle_notification(notification)
AgentHandles ==
    /\ app = "agent"
    /\ results.n = 0
    /\ \E raw \in ExtractNotifications :
       \E d \in {ApiNotification_from_dict(raw)} :
       \E llm \in LLMOutcomes, fulfil \in ApiOutcomes, report \in ApiOutcomes,
          report2 \in ApiOutcomes :
       \E out \in {IF d.exc # "" THEN AgentHandled("", "", "", <<>>)
                   ELSE agent_handle_notification(d.v, llm, fulfil, report, report2)} :
            /\ d.exc = ""
            /\ results' = [raw |-> raw, notification |-> d.v,
                           outcomes |-> [llm |-> llm, fulfil |-> fulfil, report |-> report,
                                         report2 |-> report2, send_ok |-> FALSE],
                           exc |-> out.exc, cause |-> out.cause, error |-> out.error,
                           calls |-> out.calls, n |-> 1]
    /\ HandlersFrame

\* SlackNotificationHandler.handle_notification(notification)
SlackHandles ==
    /\ app = "slack"
    /\ results.n = 0
    /\ \E raw \in ExtractNotifications, send_ok \in BOOLEAN :
       \E d \in {ApiNotification_from_dict(raw)} :
       \E out \in {IF d.exc # "" THEN Handled("", <<>>)
                   ELSE slack_handle_notification(d.v, destination, send_ok)} :
            /\ d.exc = ""
            /\ results' = [raw |-> raw, notification |-> d.v,
                           outcomes |-> [NoOutcomes EXCEPT !.send_ok = send_ok],
                           exc |-> out.exc, cause |-> "", error |-> "",
                           calls |-> [j \in DOMAIN out.sent |-> SendCall(out.sent[j])],
                           n |-> 1]
    /\ HandlersFrame

\* TeamsNotificationHandler.handle_notification(notification)
TeamsHandles ==
    /\ app = "teams"
    /\ results.n = 0
    /\ \E raw \in ExtractNotifications, send_ok \in BOOLEAN :
       \E d \in {ApiNotification_from_dict(raw)} :
       \E out \in {IF d.exc # "" THEN Handled("", <<>>)
                   ELSE teams_handle_notification(d.v, destination, send_ok)} :
            /\ d.exc = ""
            /\ results' = [raw |-> raw, notification |-> d.v,
                           outcomes |-> [NoOutcomes EXCEPT !.send_ok = send_ok],
                           exc |-> out.exc, cause |-> "", error |-> "",
                           calls |-> [j \in DOMAIN out.sent |-> SendCall(out.sent[j])],
                           n |-> 1]
    /\ HandlersFrame

NextHandlers ==
    \/ AgentHandles
    \/ SlackHandles
    \/ TeamsHandles

SpecHandlers == InitHandlers /\ [][NextHandlers]_vars

\* the notification is of the kind the running handler acts on
OwnKind ==
    IF app = "agent" THEN results.notification.name \in SubmittedNames
    ELSE results.notification.name \in FulfilledNames

\* the texts of the error reports
ErrorResponses ==
    { "*Error:* " \o m : m \in { ErrorText("LLMServiceError"), ErrorText("ApiError"),
                                  "An unexpected error occurred" } }

\* the positions of the fulfill_request calls and of those that report an error
FulfillCalls == {i \in DOMAIN results.calls : results.calls[i].call = "fulfill_request"}
ErrorFulfillments == {i \in FulfillCalls : results.calls[i].response \in ErrorResponses}

\* the collaborator failure that made the processing of the request fail
Failure ==
    IF results.outcomes.llm # "" THEN results.outcomes.llm ELSE results.outcomes.fulfil

\* C26: when the agent worker fails to process a decoded request (the
\* requirement parser or the fulfillment call fails), a fulfillment of the
\* same request reference with the error text is sent to the backend, and
\* the handler raises the processing error whether that report succeeds or
\* fails: a failure of the report is logged, not raised.
C26_FailureReported ==
    (/\ results.n = 1
     /\ app = "agent"
     /\ results.calls # <<>>
     /\ Failure # "") =>
        /\ \E i \in DOMAIN results.calls :
              results.calls[i] = FulfillCall(results.notification.arguments[1].value,
                                             "*Error:* " \o ErrorText(Failure))
        /\ results.exc = "NotificationError"
        /\ results.cause = "RequestProcessingError"

\* the parser fails and the error report fails too
C26_Witness ==
    /\ results.n = 1
    /\ app = "agent"
    /\ results.outcomes.llm = "LLMServiceError"
    /\ results.outcomes.report = "ApiError"
    /\ results.calls = <<ParseCall(JStr("do the thing")),
                         FulfillCall(JStr("R1"),
                                     "*Error:* Failed to parse requirements: timeout")>>
    /\ results.cause = "RequestProcessingError"

\* the arguments are missing or of another kind than the handler's view needs
MissingOrMistyped ==
    LET arguments == results.notification.arguments
    IN  \/ Len(arguments) < 2
        \/ arguments[1].nplType # JStr("protocolReference")
        \/ arguments[2].nplType # JStr(IF app = "agent" THEN "text" ELSE "struct")

\* C27: a decoded notification with missing or mistyped arguments is
\* discarded by every handler: no LLM call, no backend call, no channel
\* send, and the handler returns without raising.
C27_MalformedDiscarded ==
    (results.n = 1 /\ OwnKind /\ MissingOrMistyped) =>
        /\ results.calls = <<>>
        /\ results.exc = ""

\* the handlers make no call for such a notification, and the channel
\* adapters return without raising
C27_NoCallOnMalformed ==
    (results.n = 1 /\ OwnKind /\ MissingOrMistyped) =>
        /\ results.calls = <<>>
        /\ app # "agent" => results.exc = ""

\* C28: handlers act on their own kind of notification only: the agent
\* worker calls the parser and the backend only for request-submitted
\* notifications and the adapters send only for request-fulfilled ones; any
\* other notification causes no call, and no notification changes the
\* handler's stored destination.
C28_OwnKindOnly ==
    /\ []((results.n = 1 /\ ~OwnKind) => results.calls = <<>>)
    /\ [][destination' = destination]_vars

\* the Slack adapter with a channel set gets a request-submitted notification
C28_Witness ==
    /\ results.n = 1
    /\ app = "slack"
    /\ destination = JStr("A")
    /\ results.outcomes.send_ok
    /\ results.raw.o["name"] = JStr("x.y.requestSubmitted")
    /\ results.raw.o["arguments"] = JArr(<<RefR1, TicketArg>>)
    /\ results.calls = <<>>
    /\ results.exc = ""

\* the adapters do send for a well-formed request-fulfilled notification, and
\* the agent worker does call the parser and the backend for a well-formed
\* request-submitted one
C28_OwnKindActs ==
    (/\ results.n = 1
     /\ results.raw.o["arguments"] =
            JArr(<<RefR1, IF app = "agent" THEN TextArg ELSE TicketArg>>)
     /\ OwnKind
     /\ app = "agent" \/ (results.outcomes.send_ok /\ destination # None)) =>
        results.calls # <<>>

\* C30: for one request-submitted notification the agent worker sends at
\* most one error fulfillment and at most two fulfill_request calls in all,
\* on every failure path.
C30_AtMostOneErrorReport ==
    (results.n = 1 /\ app = "agent") =>
        /\ Cardinality(ErrorFulfillments) <= 1
        /\ Cardinality(FulfillCalls) <= 2

\* when the parser fails, one error report is the only fulfill_request call
C30_OneReportOnParserFailure ==
    (results.n = 1 /\ app = "agent" /\ results.outcomes.llm # "") =>
        /\ Cardinality(ErrorFulfillments) <= 1
        /\ Cardinality(FulfillCalls) <= 1

\* the notification is a request-submitted notification whose first two
\* arguments are a reference and a text with non-empty string payloads
WellFormedSubmission ==
    LET arguments == results.notification.arguments
    IN  /\ results.notification.name \in SubmittedNames
        /\ Len(arguments) >= 2
        /\ arguments[1].nplType = JStr("protocolReference")
        /\ arguments[2].nplType = JStr("text")
        /\ arguments[1].value.t = "str" /\ arguments[1].value.s # ""
        /\ arguments[2].value.t = "str" /\ arguments[2].value.s # ""

\* C31: when the agent worker processes a well-formed request-submitted
\* notification and both the requirement parser and the backend succeed,
\* fulfill_request is called exactly once, with the reference of argument 0
\* of that notification and the formatted ticket, no error response is sent
\* and the handler returns.
C31_FulfilledOnce ==
    (/\ results.n = 1
     /\ app = "agent"
     /\ WellFormedSubmission
     /\ results.outcomes.llm = ""
     /\ results.outcomes.fulfil = "") =>
        /\ Cardinality(FulfillCalls) = 1
        /\ \A i \in FulfillCalls :
              /\ results.calls[i].ref = results.notification.arguments[1].value
              /\ results.calls[i].response = formatted_response
        /\ ErrorFulfillments = {}
        /\ results.exc = ""

\* "x.y.requestSubmitted" with [reference("R1"), text("do the thing")]
C31_Witness ==
    /\ results.n = 1
    /\ app = "agent"
    /\ results.raw.o["name"] = JStr("x.y.requestSubmitted")
    /\ results.raw.o["arguments"] = JArr(<<RefR1, TextArg>>)
    /\ results.outcomes.llm = ""
    /\ results.outcomes.fulfil = ""
    /\ Len(results.calls) = 2
    /\ results.calls[1].call = "parse_requirements_to_ticket"
    /\ results.calls[1].text = JStr("do the thing")
    /\ results.calls[2].call = "fulfill_request"
    /\ results.calls[2].ref = JStr("R1")

\* the messages whose handling ended with an exception of the user lookup
\* or of create_request
FailedMessages == {m \in DOMAIN messages : messages[m].pc = "failed"}

\* C32: in the Teams adapter, an inbound message whose backend request
\* creation fails leaves the stored conversation reference, to which later
\* responses are delivered, as it was when the handling of the message began.
C32_FailedCreationKeepsConversation ==
    [][\A m \in DOMAIN messages :
          (/\ app = "teams"
           /\ messages[m].pc = "recorded"
           /\ messages'[m].pc = "failed") => destination' = messages[m].before]_vars

\* C33: in the Slack adapter, a message whose user lookup or request
\* creation failed has not set the active channel, and the active channel
\* changes only in the step that ends the handling of a message whose
\* request has been created, to the channel of that message.
C33_ChannelSetOnlyAfterCreation ==
    /\ [](app = "slack" => FailedMessages \cap recorded = {})
    /\ [][(app = "slack" /\ destination' # destination) =>
            \E m \in DOMAIN messages :
                /\ messages[m].pc = "created"
                /\ messages'[m].pc = "done"
                /\ \E k \in DOMAIN requests : requests[k] = m
                /\ destination' = JStr(messages[m].channel)]_vars
    /\ [][(app = "slack" /\ FailedMessages' # FailedMessages) =>
            destination' = destination]_vars

\* the first message was handled in full, the handling of the second one
\* failed: the active channel is still the channel of the first
C33_Witness ==
    /\ app = "slack"
    /\ Len(messages) = 2
    /\ messages[1].pc = "done"
    /\ messages[2].pc = "failed"
    /\ messages[2].channel # messages[1].channel
    /\ destination = JStr(messages[1].channel)
    /\ requests = <<1>>

----------------------------------------------------------------------------
(* SpecReference: set_conversation_reference called with any reference *)

\* calls of set_conversation_reference in one run of this specification
MaxReferences == 3

\* conversation references with a conversation id
ReferencesWithId == {ConversationReference("A"), ConversationReference("B")}

\* conversation references without one: no "conversation" key, an empty
\* conversation, a conversation whose id is None or the empty string
ReferencesWithoutId ==
    { EmptyObj,
      ConversationReference(""),
      JObj([conversation |-> JObj([id |-> None])]),
      JObj([conversation |-> JObj([id |-> JStr("")])]) }

\* in this specification messages is the log of the calls: the reference
\* passed and the reference that was stored when the call began
InitReference ==
    /\ results = NoCall
    /\ InitIdle
    /\ app = "teams"
    /\ destination = None
    /\ messages = <<>>
    /\ requests = <<>>
    /\ recorded = {}
    /\ stream = NoDelivery
    /\ posts = <<>>

\* one call of TeamsNotificationHandler.set_conversation_reference
SetConversationReference ==
    /\ Len(messages) < MaxReferences
    /\ \E conversation_reference \in ReferencesWithId \cup ReferencesWithoutId :
        /\ destination' = set_conversation_reference(destination, conversation_reference)
        /\ messages' = Append(messages, [reference |-> conversation_reference,
                                         before |-> destination])
    /\ AdapterFrame
    /\ UNCHANGED <<requests, recorded, stream, posts>>

NextReference == SetConversationReference

SpecReference == InitReference /\ [][NextReference]_vars

\* C34: a call of set_conversation_reference with a reference that has no
\* conversation id leaves the stored reference as it was, a call with a
\* reference that has one stores it, and the stored reference, when there is
\* one, has a conversation id.
C34_StoredReferenceHasId ==
    /\ \A i \in DOMAIN messages :
          LET after == IF i = Len(messages) THEN destination
                       ELSE messages[i + 1].before
          IN  /\ messages[i].reference \in ReferencesWithoutId =>
                    after = messages[i].before
              /\ messages[i].reference \in ReferencesWithId =>
                    after = messages[i].reference
    /\ destination # None =>
          /\ destination \in ReferencesWithId
          /\ Truthy(destination.o["conversation"].o["id"])

\* the reference of conversation A was stored, then a reference with an
\* empty conversation was passed: A is still stored
C34_Witness ==
    /\ Len(messages) = 2
    /\ messages[1].reference = ConversationReference("A")
    /\ messages[2].reference = ConversationReference("")
    /\ messages[2].before = ConversationReference("A")
    /\ destination = ConversationReference("A")

\* what C35 says of one SlackNotificationHandler.handle_notification call
SlackHandlerContained ==
    /\ results.exc = ""
    /\ Len(results.calls) <= 1
    /\ destination = None => results.calls = <<>>
    /\ ~results.outcomes.send_ok => results.calls = <<>>

\* C35: SlackNotificationHandler.handle_notification never raises and posts
\* at most one message per notification; with no active channel it posts
\* nothing, and a failure of chat_postMessage is absorbed.
C35_SlackHandlerNeverRaises ==
    (results.n = 1 /\ app = "slack") => SlackHandlerContained

\* for a notification whose name is a string the handler is contained: the
\* exceptions of get_response and of chat_postMessage are caught
C35_ContainedForStringNames ==
    (results.n = 1 /\ app = "slack" /\ results.notification.name.t = "str") =>
        SlackHandlerContained

\* C36: an event is passed to the callback only at a blank line and only
\* with the non-empty data it accumulated; an event with no data line or with
\* an empty data value is never passed to the callback; and when the stream
\* ends nothing is dispatched, so the lines after the last blank line never
\* are.
C36_DispatchOnlyAtBlankWithData ==
    /\ [](/\ \A i \in DOMAIN dispatched :
                /\ dispatched[i].at \in Blanks
                /\ dispatched[i].data # ""
                /\ LastValue(Segment(lines_read, dispatched[i].at), "data")
                      = Some(dispatched[i].data)
          /\ \A k \in Blanks :
                LastValue(Segment(lines_read, k), "data") \in {<<>>, Some("")}
                   => \A i \in DOMAIN dispatched : dispatched[i].at # k
          /\ Len(handled) <= Len(dispatched))
    /\ [][sse_pc' = "returned" => UNCHANGED <<dispatched, handled>>]_vars

\* an event with an empty data value was ended by a blank line, a data line
\* followed and the stream ended: nothing was dispatched
C36_Witness ==
    /\ lines_read = <<DataEmptyLine, BlankLine, DataA1Line>>
    /\ sse_pc = "returned"
    /\ dispatched = <<>>
    /\ handled = <<>>

----------------------------------------------------------------------------
(* SpecFraming: consume_sse on lines of every shape parse_sse tells apart *)

\* the number of lines one stream delivers in this specification
MaxFramingLines == 4

\* The lines of this specification, each with what the line is to do by the
\* server-sent events framing: the field it sets ("none" when it is to leave
\* the event as it is) and the value it gives the field.
FramingTable ==
    { [line |-> DataA1Line, sets |-> "data", value |-> "{\"a\":1}"],
      [line |-> <<"data", ":", " ", " ", "x">>, sets |-> "data", value |-> " x"],
      [line |-> <<"data", ":", "y">>, sets |-> "data", value |-> "y"],
      [line |-> <<"data", ":", " ", "a", ":", " ", "b">>, sets |-> "data", value |-> "a: b"],
      [line |-> TickLine, sets |-> "event", value |-> "tick"],
      [line |-> <<"event", ":", "message">>, sets |-> "event", value |-> "message"],
      [line |-> <<"data">>, sets |-> "none", value |-> ""],
      [line |-> <<"id", ":", " ", "7">>, sets |-> "none", value |-> ""],
      [line |-> <<":", " ", "keep-alive">>, sets |-> "none", value |-> ""] }

FramingLines == {e.line : e \in FramingTable}

\* the table entry of a line
Framed(line) == CHOOSE e \in FramingTable : e.line = line

\* one iteration of "for line in response.iter_lines()": on an empty line
\* the dispatch test, the callback call and the reset of the event, on any
\* other line parse_sse and the field assignment
FramingReadLine ==
    /\ sse_pc = "reading"
    /\ Len(lines_read) < MaxFramingLines
    /\ \E line \in FramingLines \cup {BlankLine} :
        /\ lines_read' = Append(lines_read, line)
        /\ IF line # BlankLine
           THEN /\ current_event' = with_field(current_event, parse_sse(line))
                /\ UNCHANGED <<dispatched, handled>>
           ELSE /\ current_event' = after_blank(current_event)
                /\ IF should_dispatch(current_event)
                   THEN \E r \in {process_notification(current_event.data[1], "")} :
                        /\ dispatched' = Append(dispatched,
                                [data |-> current_event.data[1],
                                 event |-> current_event.event,
                                 at |-> Len(lines_read) + 1])
                        /\ handled' = handled \o r.calls
                   ELSE UNCHANGED <<dispatched, handled>>
    /\ UNCHANGED <<results, sse_pc, sse_exc, app, destination, messages, requests,
                   recorded, stream, posts, http, main_pc, shutdown_event>>

NextFraming ==
    \/ Connect
    \/ FramingReadLine
    \/ StreamEnds

SpecFraming == InitStream /\ [][NextFraming]_vars

\* the positions of the lines of seg that set field by the framing
Setting(seg, field) == {i \in DOMAIN seg : Framed(seg[i]).sets = field}

\* the last position in a non-empty set of positions
LastOf(positions) == CHOOSE i \in positions : \A j \in positions : j <= i

\* C37: the event that a blank line ends causes at most one callback call,
\* and the payload of the call is the value of the last data line of the
\* event: the text after the first colon of the line without one leading
\* space. A line without a colon and a line of a field other than event and
\* data leave the event state, and what has been dispatched, as they are.
C37_LastDataLineDispatchedOnce ==
    /\ [](\A k \in Blanks :
            LET seg == Segment(lines_read, k)
                calls == {i \in DOMAIN dispatched : dispatched[i].at = k}
            IN  /\ Cardinality(calls) <= 1
                /\ \A i \in calls :
                      /\ Setting(seg, "data") # {}
                      /\ dispatched[i].data =
                            Framed(seg[LastOf(Setting(seg, "data"))]).value)
    /\ [][(/\ lines_read' # lines_read
           /\ lines_read'[Len(lines_read')] # BlankLine
           /\ Framed(lines_read'[Len(lines_read')]).sets = "none")
              => UNCHANGED <<current_event, dispatched, handled>>]_vars

\* "data: {"a":1}", "data:  x" (two spaces), "id: 7" and a blank line: the
\* callback was called once, with " x"
C37_Witness ==
    /\ lines_read = <<DataA1Line, <<"data", ":", " ", " ", "x">>, <<"id", ":", " ", "7">>,
                      BlankLine>>
    /\ Len(dispatched) = 1
    /\ dispatched[1].data = " x"
    /\ dispatched[1].at = 4
    /\ current_event = ServerSentEvent

----------------------------------------------------------------------------
(* SpecLifecycleFair: the application's threads keep running *)

\* The steps that depend on the program alone are taken when they stay
\* enabled: the stream consumer thread opens the stream and a callback call
\* returns; the main thread runs cleanup() once a signal or the end of
\* shutdown_event.wait() has led it there, and then exits. What the server
\* sends and when, the end or the loss of the connection, and a signal to
\* the process are left to the environment.
SpecLifecycleFair ==
    /\ SpecLifecycle
    /\ WF_vars(SseConnect)
    /\ WF_vars(SseCallbackReturns)
    /\ WF_vars(Cleanup)
    /\ WF_vars(ProcessExits)

\* the stream consumer thread has left consume_sse
SseStopped == sse_pc \in {"returned", "raised"}

\* C38: whenever the stream consumer thread has stopped consuming the
\* stream, the shutdown event is eventually set, and once the shutdown event
\* is set it is never cleared.
C38_ShutdownFollowsStreamStop ==
    /\ [](SseStopped => <>shutdown_event)
    /\ [][shutdown_event => shutdown_event']_vars

\* when consume_sse raised, the shutdown event is set, and it is never
\* cleared
C38_ShutdownSetOnStreamError ==
    /\ [](sse_pc = "raised" => shutdown_event)
    /\ [][shutdown_event => shutdown_event']_vars

\* the call returned a view, not None
ReturnsView(r) == r.exc = "" /\ r.v # None

\* C39: no decoded notification is both request-submitted and
\* request-fulfilled, and at most one of get_request and get_response
\* returns a view for it.
C39_ClassificationExclusive ==
    (results.n = 1 /\ results.decoded.exc = "") =>
        /\ ~(/\ results.views.submission = Ok(JBool(TRUE))
             /\ results.views.fulfilled = Ok(JBool(TRUE)))
        /\ ~(/\ ReturnsView(results.views.request)
             /\ ReturnsView(results.views.response))

\* a well-formed request-fulfilled notification: get_response returns a
\* view, get_request returns None
C39_Witness ==
    /\ results.n = 1
    /\ results.raw.o["name"] = JStr("x.y.requestFulfilled")
    /\ results.raw.o["arguments"] = JArr(<<RefR1, TicketArg>>)
    /\ results.views.fulfilled = Ok(JBool(TRUE))
    /\ results.views.submission = Ok(JBool(FALSE))
    /\ ReturnsView(results.views.response)
    /\ results.views.request = Ok(None)

====
